---- MODULE Spec2Model ----
(***************************************************************************)
(* Vimprove ingestion: the release tracker (github_release_tracker.py),    *)
(* the error log (error_logger.py), the chunk store (chunk.py) and the     *)
(* orchestrator (ingestion_pipeline.py), as state machines.                *)
(*                                                                         *)
(* Files on disk are records with a status: "absent", "ok" (a complete     *)
(* JSON document) or "partial" (opened with mode "w", hence truncated, and *)
(* not completely written).  Exceptions are modelled by their origin.      *)
(***************************************************************************)
EXTENDS Naturals, Sequences, FiniteSets, TLC

VARIABLES
    upstream,     \* GitHub: source -> [tag, sha] of the repository
    cache,        \* ReleaseTracker.cache (in memory): source -> version
    cacheFile,    \* releases.json on disk
    call,         \* the latest needs_update call: key, lookup result, outcome
    calls,        \* number of needs_update calls made on the tracker
    lastSeen,     \* source -> latest determinate version a lookup yielded
    called,       \* source -> needs_update was called for it before
    atCall,       \* source -> upstream version at the latest call for it
    pc,           \* position of VimproveIngestion.run
    force,        \* VimproveIngestion.force
    plugins,      \* the driving list: sequence of owner/repo sources
    idx,          \* position in the plugin loop, or in the txt_files loop
    txtFiles,     \* txt_files of _process_neovim_core
    docs,         \* docs returned by fetch_plugin_docs (in flight)
    errors,       \* ErrorLogger.errors (in memory)
    errorFile,    \* errors.json on disk
    chunkFiles,   \* chunks/plugins/<repo>.json on disk: repo -> file
    coreFiles,    \* chunks/neovim-core/<stem>.json on disk: stem -> file
    invoked,      \* collaborator calls of this run: <<"fetch"|"segment", source>>
    outcome,      \* per source handled in this run: what the loops did with it
    exc,          \* the exception that left run(), "none" if none
    fault,        \* what failed in the latest step of the run, "none" if nothing
    savedChunks,  \* chunk.py: the chunk list handed to the latest write
    chunkDoc,     \* chunk.py: the JSON document at output_path
    loadedChunks, \* chunk.py: what the latest load_chunks returned
    batch,        \* _embed_and_store: the batch being given ids
    ids,          \* _embed_and_store: ids
    seen_ids,     \* _embed_and_store: seen_ids
    counter_map,  \* _embed_and_store: counter_map
    text,         \* chunk_vimdoc, chunk_markdown: the text argument
    chunks,       \* chunk_vimdoc, chunk_markdown: the list returned
    shared,       \* concurrent callers: they share one ReleaseTracker
    workerPc,     \* concurrent callers: worker -> position in needs_update
    workerCache,  \* concurrent callers: worker -> its tracker's cache
    workerLatest, \* concurrent callers: worker -> latest of its call
    threadPc,     \* concurrent log_error: thread -> position in log_error
    threadRec,    \* concurrent log_error: thread -> the record it built
    lock_data,    \* extract_plugin_list: the plugin names of lazy-lock.json
    owner_repos,  \* extract_plugin_list: owner/repo strings found in the specs
    config,       \* extract_plugin_list: the configuration in force
    result        \* extract_plugin_list: the mapping returned

trackerVars == <<upstream, cache, cacheFile, call, calls, lastSeen, called, atCall>>
runVars == <<pc, force, plugins, idx, txtFiles, docs, errors,
             errorFile, chunkFiles, coreFiles, invoked, outcome, exc, fault>>
\* the components checked on their own
\* extract_plugin_list on its own
extractVars == <<lock_data, owner_repos, config, result>>

componentVars == <<savedChunks, chunkDoc, loadedChunks, batch, ids, seen_ids,
                   counter_map, text, chunks, shared, workerPc, workerCache,
                   workerLatest, threadPc, threadRec,
                   extractVars>>
vars == <<upstream, cache, cacheFile, call, calls, lastSeen, called, atCall,
          pc, force, plugins, idx, txtFiles, docs, errors,
          errorFile, chunkFiles, coreFiles, invoked, outcome, exc, fault,
          savedChunks, chunkDoc, loadedChunks, batch, ids, seen_ids,
          counter_map, text, chunks, shared, workerPc, workerCache,
          workerLatest, threadPc, threadRec,
          lock_data, owner_repos, config, result>>

----------------------------------------------------------------------------
(* Bounds *)

MaxCalls == 3
MaxPlugins == 2
MaxChunks == 1
\* records one ErrorLogger holds, records errors.json holds
MaxLogged == 2
MaxStored == 3
\* chunks in a list handed to save_chunks
MaxSaved == 2
\* chunks in one batch of _embed_and_store
MaxBatch == 3
\* lines in a help file handed to chunk_vimdoc
MaxLines == 3
\* blocks in a README handed to chunk_markdown
MaxBlocks == 3

----------------------------------------------------------------------------
(* Domains *)

None == "none"

Repos == {"x", "y"}
\* owner/repo sources; a/x and b/x share the repository name
Sources == {<<"a", "x">>, <<"b", "x">>, <<"a", "y">>}

Tags == {"v1"}
Shas == {"c1"}
Versions == Tags \cup Shas
UpstreamStates == [tag : Tags \cup {None}, sha : Shas]

\* a repository after its first push: one commit, no release
FirstCommit == [tag |-> None, sha |-> "c1"]

\* what the network does to one HTTP request
Responses == {"ok", "error", "raise"}
\* what the file system does to one open-and-write
WriteOutcomes == {"ok", "denied", "partial"}

----------------------------------------------------------------------------
(* Files *)

\* open(path, "w") then json.dump: "denied" fails in open and leaves the
\* file alone, "partial" fails after open has truncated the file.
WriteFile(old, new, w) ==
    CASE w = "ok" -> new
      [] w = "denied" -> old
      [] w = "partial" -> [new EXCEPT !.st = "partial"]

----------------------------------------------------------------------------
(* ReleaseTracker *)

EmptyCache == [k \in Sources |-> None]

CacheAsFile(c) == [st |-> "ok", data |-> c]

NoCacheFile == [st |-> "absent", data |-> EmptyCache]

\* _load_cache: {} when the file does not exist, else its content
LoadCache(f) == IF f.st = "absent" THEN EmptyCache ELSE f.data

\* _load_cache raises when the file is not a JSON document
LoadCacheRaises(f) == f.st = "partial"

\* _save_cache
SaveCache(f, c, w) == WriteFile(f, CacheAsFile(c), w)

Raised == "raised"

\* get_latest_release: r1 answers releases/latest, r2 answers commits/HEAD
GetLatestRelease(up, r1, r2) ==
    LET status1 == IF r1 = "error" THEN 500
                   ELSE IF up.tag = None THEN 404 ELSE 200
        status2 == IF r2 = "error" THEN 500 ELSE 200
    IN  IF r1 = "raise" THEN Raised
        ELSE IF status1 = 404
             THEN IF r2 = "raise" THEN Raised
                  ELSE IF status2 = 200 THEN up.sha ELSE None
             ELSE IF status1 = 200 THEN up.tag ELSE None

\* the comparison without the guard on a failed lookup
CacheDiffersUnguarded(c, key, latest) == c[key] # latest

\* needs_update, lines 43-48: is the cache to be updated?
CacheDiffers(c, key, latest) == latest # None /\ c[key] # latest

\* a tracker that keeps only the entry it stores
NeedsUpdateCacheAlone(c, key, latest) ==
    IF CacheDiffers(c, key, latest)
    THEN [k \in Sources |-> IF k = key THEN latest ELSE None]
    ELSE c

\* a tracker that never stores the version it looked up
NeedsUpdateCacheUnstored(c, key, latest) == c

\* needs_update, line 49
NeedsUpdateCache(c, key, latest) ==
    IF CacheDiffers(c, key, latest) THEN [c EXCEPT ![key] = latest] ELSE c

\* a tracker that never rewrites its file
NeedsUpdateFileUnsaved(f, c, key, latest, w) == f

\* needs_update, line 50
NeedsUpdateFile(f, c, key, latest, w) ==
    IF CacheDiffers(c, key, latest)
    THEN SaveCache(f, NeedsUpdateCache(c, key, latest), w)
    ELSE f

\* needs_update raises when the lookup raises or _save_cache fails
NeedsUpdateRaises(c, key, latest, w) ==
    \/ latest = Raised
    \/ CacheDiffers(c, key, latest) /\ w # "ok"

\* needs_update, the value returned
NeedsUpdateResult(c, key, latest) == CacheDiffers(c, key, latest)

NoCall == [key |-> <<"", "">>, latest |-> None, result |-> FALSE,
           raised |-> FALSE, w |-> "ok"]

\* One call of needs_update(owner, repo) on the tracker, whole.
NeedsUpdate(key, r1, r2, w) ==
    LET latest == GetLatestRelease(upstream[key], r1, r2)
    IN  /\ IF latest = Raised
           THEN /\ call' = [key |-> key, latest |-> Raised, result |-> FALSE,
                            raised |-> TRUE, w |-> "ok"]
                /\ UNCHANGED <<cache, cacheFile>>
           ELSE /\ call' = [key |-> key, latest |-> latest,
                            result |-> NeedsUpdateResult(cache, key, latest),
                            raised |-> NeedsUpdateRaises(cache, key, latest, w),
                            w |-> IF CacheDiffers(cache, key, latest)
                                  THEN w ELSE "ok"]
                /\ cache' = NeedsUpdateCache(cache, key, latest)
                /\ cacheFile' = NeedsUpdateFile(cacheFile, cache, key, latest, w)
        /\ UNCHANGED upstream

\* A release or a push to the repository: its tag or head commit changes.
UpstreamChange(key, s) ==
    /\ s # upstream[key]
    /\ upstream' = [upstream EXCEPT ![key] = s]
    /\ UNCHANGED <<cache, cacheFile, call>>

\* the version upstream publishes: its release tag, else its head commit
CurrentVersion(up) == IF up.tag = None THEN up.sha ELSE up.tag

\* The tracker used on its own, as test_release_tracker.py does: one
\* needs_update call per step, the caller going on after an exception.
TrackerCall ==
    /\ calls < MaxCalls
    /\ \E key \in Sources, r1, r2 \in Responses, w \in WriteOutcomes :
          /\ NeedsUpdate(key, r1, r2, w)
          /\ lastSeen' = IF call'.latest \in {None, Raised}
                         THEN lastSeen
                         ELSE [lastSeen EXCEPT ![key] = call'.latest]
          /\ called' = [called EXCEPT ![key] = TRUE]
          /\ atCall' = [atCall EXCEPT ![key] = CurrentVersion(upstream[key])]
    /\ calls' = calls + 1
    /\ UNCHANGED runVars
    /\ UNCHANGED componentVars

TrackerUpstream ==
    /\ \E key \in Sources, s \in UpstreamStates : UpstreamChange(key, s)
    /\ UNCHANGED <<calls, lastSeen, called, atCall>>
    /\ UNCHANGED runVars
    /\ UNCHANGED componentVars

CoreNames == <<"api">>
CoreStems == {CoreNames[i] : i \in 1..Len(CoreNames)}

NoFile == [st |-> "absent", source |-> <<"", "">>, count |-> 0, ver |-> None]

NoLog == [st |-> "absent", data |-> <<>>]

\* no documentation fetched
NoDocs == [type |-> None, ver |-> None]

\* chunk.py on its own, before any call
StoreIdle ==
    /\ savedChunks = [py |-> "list", v |-> <<>>]
    /\ chunkDoc = [js |-> "none", v |-> <<>>]
    /\ loadedChunks = [py |-> "none", v |-> <<>>]

\* _embed_and_store on its own, before any batch
EmbedIdle ==
    /\ batch = <<>>
    /\ ids = <<>>
    /\ seen_ids = {}
    /\ counter_map = <<>>

\* chunk_vimdoc on its own, before any call
VimdocIdle ==
    /\ text = <<>>
    /\ chunks = [st |-> "none", v |-> <<>>]

\* no concurrent callers of needs_update
WorkersIdle ==
    /\ shared = FALSE
    /\ workerPc = <<>>
    /\ workerCache = <<>>
    /\ workerLatest = <<>>

\* no concurrent callers of log_error
ThreadsIdle ==
    /\ threadPc = <<>>
    /\ threadRec = <<>>

\* the components checked on their own, before any of them is used
\* extract_plugin_list on its own, before any call
ExtractIdle ==
    /\ lock_data = {}
    /\ owner_repos = <<>>
    /\ config = [overrides |-> <<>>, ignore |-> {},
                 always_include |-> <<>>]
    /\ result = [st |-> "none", v |-> <<>>]

ComponentsIdle ==
    /\ ExtractIdle
    /\ StoreIdle
    /\ EmbedIdle
    /\ VimdocIdle
    /\ WorkersIdle
    /\ ThreadsIdle

\* no run of the orchestrator under way, nothing on disk
RunIdle ==
    /\ pc = "idle"
    /\ force = FALSE
    /\ plugins = <<>>
    /\ idx = 0
    /\ txtFiles = <<>>
    /\ docs = NoDocs
    /\ errors = <<>>
    /\ errorFile = NoLog
    /\ chunkFiles = [r \in Repos |-> NoFile]
    /\ coreFiles = [d \in CoreStems |-> NoFile]
    /\ invoked = {}
    /\ outcome = <<>>
    /\ exc = None
    /\ fault = None

\* no needs_update call made yet
NoCalls ==
    /\ call = NoCall
    /\ calls = 0
    /\ lastSeen = [k \in Sources |-> None]
    /\ called = [k \in Sources |-> FALSE]
    /\ atCall = [k \in Sources |-> None]

\* The tracker on its own: no cache file yet.
TrackerInit ==
    /\ upstream = [k \in Sources |-> FirstCommit]
    /\ cacheFile = NoCacheFile
    /\ cache = LoadCache(cacheFile)
    /\ NoCalls
    /\ RunIdle
    /\ ComponentsIdle

TrackerNext == TrackerCall \/ TrackerUpstream

TrackerSpec == TrackerInit /\ [][TrackerNext]_vars

----------------------------------------------------------------------------
(* ErrorLogger *)

\* a logger that drops the record
LogErrorDropped(errs, source, error_type, message) == errs

\* log_error: one record appended; message is str(e), kept as the origin
LogError(errs, source, error_type, message) ==
    Append(errs, [source |-> source, error_type |-> error_type,
                  message |-> message])

\* save, lines 38-42: the records of the file, then this run's
AllErrors(f, errs) == (IF f.st = "absent" THEN <<>> ELSE f.data) \o errs

\* save, lines 44-45
SaveLog(f, errs, w) == WriteFile(f, [st |-> "ok", data |-> AllErrors(f, errs)], w)

\* The error log on its own, over several runs on one cache directory.
LogInit == TrackerInit

\* the sources whose failures are logged
LogSources == {<<"a", "x">>, <<"a", "y">>}

\* log_error called by a run
LogRecord ==
    /\ Len(errors) < MaxLogged
    /\ \E src \in LogSources :
          errors' = LogError(errors, src, "plugin_processing_failed", "fetch")
    /\ UNCHANGED <<trackerVars, pc, force, plugins, idx, txtFiles, docs,
                   errorFile, chunkFiles, coreFiles, invoked, outcome, exc,
                   fault>>
    /\ UNCHANGED componentVars

\* save, the last thing a run does, in a run that logged something and
\* whose errors.json, if there, is a JSON document (with nothing logged save
\* returns at once, on a file it cannot parse it raises in json.load: both
\* change nothing); the next run starts with a new ErrorLogger
LogSave ==
    /\ errors # <<>>
    /\ errorFile.st # "partial"
    /\ Len(AllErrors(errorFile, errors)) <= MaxStored
    /\ \E w \in WriteOutcomes : errorFile' = SaveLog(errorFile, errors, w)
    /\ errors' = <<>>
    /\ UNCHANGED <<trackerVars, pc, force, plugins, idx, txtFiles, docs,
                   chunkFiles, coreFiles, invoked, outcome, exc, fault>>
    /\ UNCHANGED componentVars

\* a run that ends before save, and the next run: ErrorLogger.__init__
LogNewRun ==
    /\ errors # <<>>
    /\ errors' = <<>>
    /\ UNCHANGED <<trackerVars, pc, force, plugins, idx, txtFiles, docs,
                   errorFile, chunkFiles, coreFiles, invoked, outcome, exc,
                   fault>>
    /\ UNCHANGED componentVars

LogNext == LogRecord \/ LogSave \/ LogNewRun

LogSpec == LogInit /\ [][LogNext]_vars

----------------------------------------------------------------------------
(* chunk.py *)

\* save_chunks: the envelope written to output_path
Batch(source, n, ver) == [st |-> "ok", source |-> source, count |-> n, ver |-> ver]

SaveChunks(old, source, n, ver, w) == WriteFile(old, Batch(source, n, ver), w)

----------------------------------------------------------------------------
(* VimproveIngestion *)

Repo(key) == key[2]


\* the driving lists, up to renaming: none, one source, two sources with
\* different repository names, two with the same, and all three
PluginLists ==
    {l \in {<<>>, << <<"a", "x">> >>,
            << <<"a", "x">>, <<"a", "y">> >>,
            << <<"a", "x">>, <<"b", "x">> >>,
            << <<"a", "x">>, <<"a", "y">>, <<"b", "x">> >>} :
        Len(l) <= MaxPlugins}

CoreSource(stem) == <<"neovim-core", stem>>
\* the log names the file (txt_file.name), not its stem
CoreLogSource(stem) == <<"neovim-core", stem, ".txt">>

\* processed / skipped / failed of _process_plugins, kept per source, with
\* the number of chunks the segmenters yielded
Journal(o, source, what, n) ==
    Append(o, [source |-> source, what |-> what, chunks |-> n])

\* a loop that keeps the existing chunks only when there are none
ShouldSkipWhenMissing(needs, exists) == ~needs /\ ~exists

\* _process_plugins, lines 162-167: keep the existing chunks
ShouldSkip(needs, exists) == ~needs /\ exists

\* a loop that saves whatever the segmenters returned
ShouldSaveAlways(n) == TRUE

\* `if chunks:` / `if all_chunks:` before save_chunks
ShouldSave(n) == n > 0

\* where run() goes after the plugin at position i
AfterPlugin(i) == IF i < Len(plugins) THEN "check" ELSE "finalize"

\* where run() goes after _process_neovim_core
AfterCore == IF Len(plugins) > 0 THEN "check" ELSE "finalize"

\* What an earlier run left on disk.  RanBefore(l) is the cache directory
\* after a run without --force over the driving list l in which every
\* lookup, fetch, segmentation and write succeeded, computed with the
\* operations of that run; RanBefore(<<>>) with no core file is a fresh
\* cache directory.
RECURSIVE CacheAfter(_, _)
CacheAfter(l, f) ==
    IF l = <<>> THEN f
    ELSE LET key == Head(l)
             latest == GetLatestRelease(FirstCommit, "ok", "ok")
         IN  CacheAfter(Tail(l),
                 NeedsUpdateFile(f, LoadCache(f), key, latest, "ok"))

RECURSIVE ChunksAfter(_, _)
ChunksAfter(l, fs) ==
    IF l = <<>> THEN fs
    ELSE LET key == Head(l) IN
         ChunksAfter(Tail(l), [fs EXCEPT ![Repo(key)] =
             SaveChunks(@, key, 1, CurrentVersion(FirstCommit), "ok")])

PriorLists == {<<>>, << <<"a", "x">>, <<"a", "y">> >>}

Init ==
    /\ upstream = [k \in Sources |-> FirstCommit]
    /\ \E l \in PriorLists :
         /\ cacheFile = CacheAfter(l, NoCacheFile)
         /\ chunkFiles = ChunksAfter(l, [r \in Repos |-> NoFile])
         /\ coreFiles = IF l = <<>> THEN [d \in CoreStems |-> NoFile]
                        ELSE [d \in CoreStems |->
                                SaveChunks(NoFile, CoreSource(d), 1, None, "ok")]
    /\ errorFile = NoLog
    /\ cache = EmptyCache
    /\ call = NoCall
    /\ calls = 0
    /\ lastSeen = [k \in Sources |-> None]
    /\ called = [k \in Sources |-> FALSE]
    /\ atCall = [k \in Sources |-> None]
    /\ pc = "idle"
    /\ force = FALSE
    /\ plugins = <<>>
    /\ idx = 0
    /\ txtFiles = <<>>
    /\ docs = NoDocs
    /\ errors = <<>>
    /\ invoked = {}
    /\ outcome = <<>>
    /\ exc = None
    /\ fault = None
    /\ ComponentsIdle

\* python3 ingest.py [--force]: __init__, which loads the version cache
StartRun ==
    /\ pc = "idle"
    /\ \E f \in BOOLEAN : force' = f
    /\ errors' = <<>>
    /\ IF LoadCacheRaises(cacheFile)
       THEN /\ pc' = "aborted"
            /\ exc' = "cache_load"
            /\ fault' = "read"
            /\ UNCHANGED cache
       ELSE /\ pc' = "extract"
            /\ exc' = None
            /\ fault' = None
            /\ cache' = LoadCache(cacheFile)
    /\ UNCHANGED <<upstream, cacheFile, call, calls, lastSeen, called, atCall,
                   plugins, idx, txtFiles, docs, invoked, outcome,
                   errorFile, chunkFiles, coreFiles>>
    /\ UNCHANGED componentVars

\* _extract_plugins returns the driving list
ExtractPlugins ==
    /\ pc = "extract"
    /\ \E l \in PluginLists : plugins' = l
    /\ pc' = "core"
    /\ UNCHANGED <<trackerVars, force, idx, txtFiles, docs, errors, errorFile,
                   chunkFiles, coreFiles, invoked, outcome, exc>>
    /\ fault' = None
    /\ UNCHANGED componentVars

\* _extract_plugins, lines 95-101: extract_plugin_list raises
ExtractFails ==
    /\ pc = "extract"
    /\ errors' = LogError(errors, <<"plugin-extraction", "">>,
                          "extraction_failed", "extract")
    /\ pc' = "aborted"
    /\ exc' = "extraction"
    /\ fault' = "extract"
    /\ UNCHANGED <<trackerVars, force, plugins, idx, txtFiles, docs, errorFile,
                   chunkFiles, coreFiles, invoked, outcome>>
    /\ UNCHANGED componentVars

\* _process_neovim_core, lines 108-112
CoreCached == ~force /\ \E d \in CoreStems : coreFiles[d].st # "absent"

CoreSkip ==
    /\ pc = "core"
    /\ CoreCached
    /\ pc' = AfterCore
    /\ idx' = 1
    /\ fault' = None
    /\ UNCHANGED <<trackerVars, force, plugins, txtFiles, docs, errors,
                   errorFile, chunkFiles, coreFiles, invoked, outcome, exc>>
    /\ UNCHANGED componentVars

\* _process_neovim_core, lines 116-120: fetch_neovim_docs returns
CoreFetch ==
    /\ pc = "core"
    /\ ~CoreCached
    /\ \E n \in 0..Len(CoreNames) :
         /\ txtFiles' = SubSeq(CoreNames, 1, n)
         /\ pc' = IF n > 0 THEN "core_file" ELSE AfterCore
    /\ idx' = 1
    /\ fault' = None
    /\ UNCHANGED <<trackerVars, force, plugins, docs, errors, errorFile,
                   chunkFiles, coreFiles, invoked, outcome, exc>>
    /\ UNCHANGED componentVars

\* _process_neovim_core, lines 140-144: fetch_neovim_docs raises
CoreFetchFails ==
    /\ pc = "core"
    /\ ~CoreCached
    /\ errors' = LogError(errors, <<"neovim-core", "">>, "fetch_failed", "fetch")
    /\ pc' = "aborted"
    /\ exc' = "core_fetch"
    /\ fault' = "fetch"
    /\ UNCHANGED <<trackerVars, force, plugins, idx, txtFiles, docs, errorFile,
                   chunkFiles, coreFiles, invoked, outcome>>
    /\ UNCHANGED componentVars

\* _process_neovim_core, lines 122-138: one txt file
\* seg is what chunk_vimdoc does, n the chunks it yields, w the write
CoreFile ==
    /\ pc = "core_file"
    /\ LET stem == txtFiles[idx] IN
       \E seg \in {"ok", "raise"}, n \in 0..MaxChunks, w \in WriteOutcomes :
         /\ seg = "raise" => n = 0 /\ w = "ok"
         /\ ~ShouldSave(n) => w = "ok"
         /\ IF seg = "raise"
            THEN /\ errors' = LogError(errors, CoreLogSource(stem),
                                       "processing_failed", "segment")
                 /\ outcome' = Journal(outcome, CoreSource(stem), "failed", 0)
                 /\ fault' = "segment"
                 /\ UNCHANGED coreFiles
            ELSE IF ShouldSave(n)
            THEN /\ coreFiles' = [coreFiles EXCEPT ![stem] =
                        SaveChunks(@, CoreSource(stem), n, None, w)]
                 /\ IF w = "ok"
                    THEN /\ outcome' = Journal(outcome, CoreSource(stem),
                                               "processed", n)
                         /\ fault' = None
                         /\ UNCHANGED errors
                    ELSE /\ errors' = LogError(errors, CoreLogSource(stem),
                                               "processing_failed", "write")
                         /\ outcome' = Journal(outcome, CoreSource(stem),
                                               "failed", n)
                         /\ fault' = "write"
            ELSE /\ outcome' = Journal(outcome, CoreSource(stem), "empty", n)
                 /\ fault' = None
                 /\ UNCHANGED <<errors, coreFiles>>
    /\ IF idx < Len(txtFiles)
       THEN /\ idx' = idx + 1
            /\ pc' = "core_file"
       ELSE /\ idx' = 1
            /\ pc' = AfterCore
    /\ UNCHANGED <<trackerVars, force, plugins, txtFiles, docs, errorFile,
                   chunkFiles, invoked, exc>>
    /\ UNCHANGED componentVars

\* _process_plugins, lines 155-169: the version check of plugins[idx]
CheckPlugin ==
    /\ pc = "check"
    /\ LET key == plugins[idx] IN
       IF force
       THEN /\ pc' = "fetch"
            /\ fault' = None
            /\ UNCHANGED <<upstream, cache, cacheFile, call, idx, outcome, exc>>
       ELSE /\ \E r1, r2 \in Responses, w \in WriteOutcomes :
                 NeedsUpdate(key, r1, r2, w)
            /\ IF call'.raised
               THEN /\ pc' = "aborted"
                    /\ exc' = IF call'.latest = Raised THEN "lookup"
                              ELSE "cache_write"
                    /\ fault' = IF call'.latest = Raised THEN "lookup"
                                ELSE "write"
                    /\ UNCHANGED <<idx, outcome>>
               ELSE IF ShouldSkip(call'.result,
                                  chunkFiles[Repo(key)].st # "absent")
               THEN /\ outcome' = Journal(outcome, key, "skipped", 0)
                    /\ pc' = AfterPlugin(idx)
                    /\ idx' = idx + 1
                    /\ fault' = None
                    /\ UNCHANGED exc
               ELSE /\ pc' = "fetch"
                    /\ fault' = None
                    /\ UNCHANGED <<idx, outcome, exc>>
    /\ UNCHANGED <<calls, lastSeen, called, atCall, force, plugins, txtFiles,
                   docs, errors, errorFile, chunkFiles, coreFiles, invoked>>
    /\ UNCHANGED componentVars

\* _process_plugins, line 173: fetch_plugin_docs for plugins[idx]
FetchPlugin ==
    /\ pc = "fetch"
    /\ LET key == plugins[idx] IN
       /\ invoked' = invoked \cup {<<"fetch", key>>}
       /\ \E res \in {"vimdoc", "markdown", "raise"} :
            IF res = "raise"
            THEN /\ errors' = LogError(errors, key,
                                       "plugin_processing_failed", "fetch")
                 /\ outcome' = Journal(outcome, key, "failed", 0)
                 /\ pc' = AfterPlugin(idx)
                 /\ idx' = idx + 1
                 /\ fault' = "fetch"
                 /\ UNCHANGED docs
            ELSE /\ docs' = [type |-> res, ver |-> CurrentVersion(upstream[key])]
                 /\ pc' = "chunk"
                 /\ fault' = None
                 /\ UNCHANGED <<errors, outcome, idx>>
    /\ UNCHANGED <<trackerVars, force, plugins, txtFiles, errorFile,
                   chunkFiles, coreFiles, exc>>
    /\ UNCHANGED componentVars

\* _process_plugins, lines 176-207: segment the fetched files and save
ChunkPlugin ==
    /\ pc = "chunk"
    /\ LET key == plugins[idx] IN
       /\ invoked' = invoked \cup {<<"segment", key>>}
       /\ \E seg \in {"ok", "raise"}, n \in 0..MaxChunks, w \in WriteOutcomes :
            /\ seg = "raise" => n = 0 /\ w = "ok"
            /\ ~ShouldSave(n) => w = "ok"
            /\ IF seg = "raise"
               THEN /\ errors' = LogError(errors, key,
                                          "plugin_processing_failed", "segment")
                    /\ outcome' = Journal(outcome, key, "failed", 0)
                    /\ fault' = "segment"
                    /\ UNCHANGED chunkFiles
               ELSE IF ShouldSave(n)
               THEN /\ chunkFiles' = [chunkFiles EXCEPT ![Repo(key)] =
                           SaveChunks(@, key, n, docs.ver, w)]
                    /\ IF w = "ok"
                       THEN /\ outcome' = Journal(outcome, key, "processed", n)
                            /\ fault' = None
                            /\ UNCHANGED errors
                       ELSE /\ errors' = LogError(errors, key,
                                           "plugin_processing_failed", "write")
                            /\ outcome' = Journal(outcome, key, "failed", n)
                            /\ fault' = "write"
               ELSE /\ outcome' = Journal(outcome, key, "empty", n)
                    /\ fault' = None
                    /\ UNCHANGED <<errors, chunkFiles>>
    /\ docs' = NoDocs
    /\ pc' = AfterPlugin(idx)
    /\ idx' = idx + 1
    /\ UNCHANGED <<trackerVars, force, plugins, txtFiles, errorFile,
                   coreFiles, exc>>
    /\ UNCHANGED componentVars

\* run, line 64: error_logger.save()
Finalize ==
    /\ pc = "finalize"
    /\ IF errors = <<>>
       THEN /\ pc' = "done"
            /\ fault' = None
            /\ UNCHANGED <<errorFile, exc>>
       ELSE IF errorFile.st = "partial"
       THEN /\ pc' = "aborted"
            /\ exc' = "errlog_read"
            /\ fault' = "read"
            /\ UNCHANGED errorFile
       ELSE \E w \in WriteOutcomes :
            /\ errorFile' = SaveLog(errorFile, errors, w)
            /\ IF w = "ok"
               THEN /\ pc' = "done"
                    /\ fault' = None
                    /\ UNCHANGED exc
               ELSE /\ pc' = "aborted"
                    /\ exc' = "errlog_write"
                    /\ fault' = "write"
    /\ UNCHANGED <<trackerVars, force, plugins, idx, txtFiles, docs, errors,
                   chunkFiles, coreFiles, invoked, outcome>>
    /\ UNCHANGED componentVars

\* GitHub before the run
Upstream ==
    /\ pc = "idle"
    /\ \E key \in Sources, s \in UpstreamStates : UpstreamChange(key, s)
    /\ UNCHANGED <<calls, lastSeen, called, atCall>>
    /\ UNCHANGED runVars
    /\ UNCHANGED componentVars

Next ==
    \/ StartRun
    \/ ExtractPlugins
    \/ ExtractFails
    \/ CoreSkip
    \/ CoreFetch
    \/ CoreFetchFails
    \/ CoreFile
    \/ CheckPlugin
    \/ FetchPlugin
    \/ ChunkPlugin
    \/ Finalize
    \/ Upstream

Spec == Init /\ [][Next]_vars

----------------------------------------------------------------------------
(* ingestion_pipeline.py: run after run, without --force *)

Last(q) == q[Len(q)]

\* the records a reader of errors.json gets
Stored(f) == IF f.st = "ok" THEN f.data ELSE <<>>

\* the plugin under watch is in every list
RunsLists == {<< <<"a", "x">> >>, << <<"a", "x">>, <<"a", "y">> >>}

Watched == <<"a", "x">>

\* a clean earlier run has stored a batch for every plugin
RunsInit ==
    /\ Init
    /\ chunkFiles[Repo(Watched)].st = "ok"

\* main: python ingestion_pipeline.py, no --force
RunsStart ==
    /\ StartRun
    /\ force' = FALSE

RunsExtract ==
    /\ ExtractPlugins
    /\ plugins' \in RunsLists

\* the lookup answers and the cache file is written
RunsCheck ==
    /\ CheckPlugin
    /\ ~call'.raised
    /\ call'.latest = CurrentVersion(upstream[plugins[idx]])

\* the records errors.json and the logger hold together
Logged == Len(Stored(errorFile)) + Len(errors)

\* fetch_plugin_docs may raise, a bounded number of times over all runs
RunsFetch ==
    /\ FetchPlugin
    /\ fault' = "fetch" => Logged < MaxStored

\* segmentation and save_chunks succeed
RunsChunk ==
    /\ ChunkPlugin
    /\ Last(outcome').what = "processed"

RunsFinalize ==
    /\ Finalize
    /\ pc' = "done"

\* a release is published for a plugin, between two runs
RunsUpstream ==
    /\ pc = "idle"
    /\ \E key \in {<<"a", "x">>, <<"a", "y">>}, s \in UpstreamStates :
         /\ s.tag # None
         /\ UpstreamChange(key, s)
    /\ UNCHANGED <<calls, lastSeen, called, atCall>>
    /\ UNCHANGED runVars
    /\ UNCHANGED componentVars

\* the process ends; the next one starts with the files alone
NextRun ==
    /\ pc \in {"done", "aborted"}
    /\ pc' = "idle"
    /\ cache' = EmptyCache
    /\ call' = NoCall
    /\ force' = FALSE
    /\ plugins' = <<>>
    /\ idx' = 0
    /\ txtFiles' = <<>>
    /\ docs' = NoDocs
    /\ errors' = <<>>
    /\ invoked' = {}
    /\ outcome' = <<>>
    /\ exc' = None
    /\ fault' = None
    /\ UNCHANGED <<upstream, cacheFile, calls, lastSeen, called, atCall,
                   errorFile, chunkFiles, coreFiles>>
    /\ UNCHANGED componentVars

RunsStep ==
    \/ RunsStart
    \/ RunsExtract
    \/ CoreSkip
    \/ RunsCheck
    \/ RunsFetch
    \/ RunsChunk
    \/ RunsFinalize
    \/ NextRun

RunsNext ==
    \/ RunsStep
    \/ RunsUpstream

\* every started run goes on to its end and another run follows; each step
\* of a run moves pc or idx
RunsSpec == RunsInit /\ [][RunsNext]_vars /\ WF_<<pc, idx>>(RunsStep)

----------------------------------------------------------------------------
(* chunk.py: save_chunks and load_chunks, through JSON *)

\* Python values: str, int, list, and dict as its items in insertion order
PyStr(x) == [py |-> "str", v |-> x]
PyInt(n) == [py |-> "int", v |-> n]
PyList(l) == [py |-> "list", v |-> l]
PyDict(items) == [py |-> "dict", v |-> items]

\* json.dump: the JSON document of a value
RECURSIVE JsonDump(_)
JsonDump(x) ==
    CASE x.py = "str" -> [js |-> "string", v |-> x.v]
      [] x.py = "int" -> [js |-> "number", v |-> x.v]
      [] x.py = "list" ->
            [js |-> "array", v |-> [i \in DOMAIN x.v |-> JsonDump(x.v[i])]]
      [] x.py = "dict" ->
            [js |-> "object",
             v |-> [i \in DOMAIN x.v |-> <<x.v[i][1], JsonDump(x.v[i][2])>>]]

\* json.load: the value of a JSON document
RECURSIVE JsonLoad(_)
JsonLoad(d) ==
    CASE d.js = "string" -> PyStr(d.v)
      [] d.js = "number" -> PyInt(d.v)
      [] d.js = "array" -> PyList([i \in DOMAIN d.v |-> JsonLoad(d.v[i])])
      [] d.js = "object" ->
            PyDict([i \in DOMAIN d.v |-> <<d.v[i][1], JsonLoad(d.v[i][2])>>])

\* dict.get(key, default)
DictGet(x, key, default) ==
    IF x.py = "dict" /\ \E i \in DOMAIN x.v : x.v[i][1] = key
    THEN x.v[CHOOSE i \in DOMAIN x.v : x.v[i][1] = key][2]
    ELSE default

\* the chunk dict chunk_vimdoc builds
VimdocChunk(source, heading, tags, body) ==
    PyDict(<< <<"type", PyStr("vimdoc")>>, <<"source", PyStr(source)>>,
              <<"heading", PyStr(heading)>>,
              <<"tags", PyList([i \in DOMAIN tags |-> PyStr(tags[i])])>>,
              <<"text", PyStr(body)>> >>)

\* the chunk dict chunk_markdown builds
MarkdownChunk(source, headings, body) ==
    PyDict(<< <<"type", PyStr("markdown")>>, <<"source", PyStr(source)>>,
              <<"headings",
                PyList([i \in DOMAIN headings |-> PyStr(headings[i])])>>,
              <<"text", PyStr(body)>> >>)

\* datetime.utcnow().isoformat() + "Z"
Now == "2024-01-01T00:00:00Z"

\* save_chunks: data
Envelope(cs, source) ==
    PyDict(<< <<"source", PyStr(source)>>, <<"generated_at", PyStr(Now)>>,
              <<"chunk_count", PyInt(Len(cs.v))>>, <<"chunks", cs>> >>)

\* save_chunks: the document written to output_path
SaveChunksDoc(cs, source) == JsonDump(Envelope(cs, source))

\* a reader that takes every file for an envelope
LoadChunksEnvelopeOnly(d) == DictGet(JsonLoad(d), "chunks", PyList(<<>>))

\* load_chunks
LoadChunks(d) ==
    LET data == JsonLoad(d)
    IN  IF data.py = "list" THEN data
        ELSE DictGet(data, "chunks", PyList(<<>>))

\* the chunks the segmenters hand over
SavedChunkDomain ==
    {VimdocChunk("a/x", "h", tags, body) :
        tags \in {<<>>, <<"g">>}, body \in {"t", "u"}}
    \cup {MarkdownChunk("a/x", headings, body) :
            headings \in {<<>>, <<"h">>}, body \in {"t", "u"}}

SavedLists ==
    UNION {[1..n -> SavedChunkDomain] : n \in 0..MaxSaved}

\* no file at output_path; load_chunks not called yet
NoDoc == [js |-> "none", v |-> <<>>]
NotLoaded == [py |-> "none", v |-> <<>>]

\* The chunk store on its own.
StoreInit == TrackerInit

\* save_chunks(cs, source, output_path)
StoreSave ==
    /\ \E l \in SavedLists :
          /\ savedChunks' = PyList(l)
          /\ chunkDoc' = SaveChunksDoc(PyList(l), "a/x")
    /\ loadedChunks' = NotLoaded
    /\ UNCHANGED <<trackerVars, runVars, batch, ids, seen_ids, counter_map,
                   text, chunks, shared, workerPc, workerCache, workerLatest,
                   threadPc, threadRec>>
    /\ UNCHANGED extractVars

\* a file of the legacy format: json.dump of the bare chunk list
StoreLegacy ==
    /\ \E l \in SavedLists :
          /\ savedChunks' = PyList(l)
          /\ chunkDoc' = JsonDump(PyList(l))
    /\ loadedChunks' = NotLoaded
    /\ UNCHANGED <<trackerVars, runVars, batch, ids, seen_ids, counter_map,
                   text, chunks, shared, workerPc, workerCache, workerLatest,
                   threadPc, threadRec>>
    /\ UNCHANGED extractVars

\* load_chunks(chunk_file)
StoreLoad ==
    /\ chunkDoc # NoDoc
    /\ loadedChunks' = LoadChunks(chunkDoc)
    /\ UNCHANGED <<trackerVars, runVars, savedChunks, chunkDoc, batch, ids,
                   seen_ids, counter_map, text, chunks, shared, workerPc,
                   workerCache, workerLatest, threadPc, threadRec>>
    /\ UNCHANGED extractVars

StoreNext == StoreSave \/ StoreLegacy \/ StoreLoad

StoreSpec == StoreInit /\ [][StoreNext]_vars

----------------------------------------------------------------------------
(* Two needs_update calls at the same time on one releases.json *)

Workers == {1, 2}

\* the two calls are for different keys
WorkerKey(w) == IF w = 1 THEN <<"a", "x">> ELSE <<"a", "y">>

\* a release of every repository since the cache was written
Released == [tag |-> "v1", sha |-> "c1"]

\* the cache file an earlier run left: the first commit of both keys
EarlierCache ==
    CacheAsFile([k \in Sources |->
                   IF \E w \in Workers : WorkerKey(w) = k
                   THEN CurrentVersion(FirstCommit) ELSE None])

\* open(self.cache_file, "w") before json.dump has written anything
Truncated == [st |-> "partial", data |-> EmptyCache]

\* Two callers, in one process on one ReleaseTracker (shared) or in two
\* processes with a ReleaseTracker each, over no cache file or the one an
\* earlier run left.
ConcInit ==
    /\ ExtractIdle
    /\ upstream = [k \in Sources |-> Released]
    /\ cacheFile \in {NoCacheFile, EarlierCache}
    /\ cache = EmptyCache
    /\ NoCalls
    /\ RunIdle
    /\ StoreIdle
    /\ EmbedIdle
    /\ VimdocIdle
    /\ ThreadsIdle
    /\ shared \in BOOLEAN
    /\ workerPc = [w \in Workers |-> IF shared THEN "lookup" ELSE "new"]
    /\ workerCache = [w \in Workers |->
                        IF shared THEN LoadCache(cacheFile) ELSE EmptyCache]
    /\ workerLatest = [w \in Workers |-> None]

\* the caches a store by worker w changes: its tracker's
SameTracker(w) == IF shared THEN Workers ELSE {w}

\* ReleaseTracker.__init__ in the process of worker w
WorkerLoad(w) ==
    /\ workerPc[w] = "new"
    /\ IF LoadCacheRaises(cacheFile)
       THEN /\ workerPc' = [workerPc EXCEPT ![w] = "failed"]
            /\ UNCHANGED workerCache
       ELSE /\ workerPc' = [workerPc EXCEPT ![w] = "lookup"]
            /\ workerCache' = [workerCache EXCEPT ![w] = LoadCache(cacheFile)]
    /\ UNCHANGED <<cacheFile, workerLatest>>
    /\ UNCHANGED <<upstream, cache, call, calls, lastSeen, called, atCall,
                   runVars, savedChunks, chunkDoc, loadedChunks, batch, ids,
                   seen_ids, counter_map, text, chunks, shared, threadPc,
                   threadRec>>
    /\ UNCHANGED extractVars

\* needs_update, line 41: the lookup, which finds the release
WorkerLookup(w) ==
    /\ workerPc[w] = "lookup"
    /\ workerLatest' =
          [workerLatest EXCEPT
              ![w] = GetLatestRelease(upstream[WorkerKey(w)], "ok", "ok")]
    /\ workerPc' = [workerPc EXCEPT ![w] = "compare"]
    /\ UNCHANGED <<cacheFile, workerCache>>
    /\ UNCHANGED <<upstream, cache, call, calls, lastSeen, called, atCall,
                   runVars, savedChunks, chunkDoc, loadedChunks, batch, ids,
                   seen_ids, counter_map, text, chunks, shared, threadPc,
                   threadRec>>
    /\ UNCHANGED extractVars

\* needs_update, lines 43-49: compare, store in the tracker's cache
WorkerStore(w) ==
    /\ workerPc[w] = "compare"
    /\ IF CacheDiffers(workerCache[w], WorkerKey(w), workerLatest[w])
       THEN /\ workerCache' =
                  [v \in Workers |->
                      IF v \in SameTracker(w)
                      THEN NeedsUpdateCache(workerCache[v], WorkerKey(w),
                                            workerLatest[w])
                      ELSE workerCache[v]]
            /\ workerPc' = [workerPc EXCEPT ![w] = "open"]
       ELSE /\ workerPc' = [workerPc EXCEPT ![w] = "done"]
            /\ UNCHANGED workerCache
    /\ UNCHANGED <<cacheFile, workerLatest>>
    /\ UNCHANGED <<upstream, cache, call, calls, lastSeen, called, atCall,
                   runVars, savedChunks, chunkDoc, loadedChunks, batch, ids,
                   seen_ids, counter_map, text, chunks, shared, threadPc,
                   threadRec>>
    /\ UNCHANGED extractVars

\* _save_cache, line 19: open(self.cache_file, "w") truncates the file
WorkerOpen(w) ==
    /\ workerPc[w] = "open"
    /\ cacheFile' = Truncated
    /\ workerPc' = [workerPc EXCEPT ![w] = "dump"]
    /\ UNCHANGED <<workerCache, workerLatest>>
    /\ UNCHANGED <<upstream, cache, call, calls, lastSeen, called, atCall,
                   runVars, savedChunks, chunkDoc, loadedChunks, batch, ids,
                   seen_ids, counter_map, text, chunks, shared, threadPc,
                   threadRec>>
    /\ UNCHANGED extractVars

\* _save_cache, line 20: json.dump and close; needs_update returns True
WorkerDump(w) ==
    /\ workerPc[w] = "dump"
    /\ cacheFile' = SaveCache(cacheFile, workerCache[w], "ok")
    /\ workerPc' = [workerPc EXCEPT ![w] = "done"]
    /\ UNCHANGED <<workerCache, workerLatest>>
    /\ UNCHANGED <<upstream, cache, call, calls, lastSeen, called, atCall,
                   runVars, savedChunks, chunkDoc, loadedChunks, batch, ids,
                   seen_ids, counter_map, text, chunks, shared, threadPc,
                   threadRec>>
    /\ UNCHANGED extractVars

ConcNext ==
    \E w \in Workers :
        \/ WorkerLoad(w)
        \/ WorkerLookup(w)
        \/ WorkerStore(w)
        \/ WorkerOpen(w)
        \/ WorkerDump(w)

ConcSpec == ConcInit /\ [][ConcNext]_vars

----------------------------------------------------------------------------
(* log_error called by several threads on one ErrorLogger *)

Threads == {"t1", "t2", "t3"}

\* each thread fails on a source of its own
ThreadSource(t) == <<t, "x">>

NoRecord == [source |-> <<"", "">>, error_type |-> "", message |-> "",
             seen |-> <<>>]

\* One ErrorLogger, no record yet, every thread about to call log_error.
ThreadInit ==
    /\ ExtractIdle
    /\ upstream = [k \in Sources |-> FirstCommit]
    /\ cacheFile = NoCacheFile
    /\ cache = EmptyCache
    /\ NoCalls
    /\ RunIdle
    /\ StoreIdle
    /\ EmbedIdle
    /\ VimdocIdle
    /\ WorkersIdle
    /\ threadPc = [t \in Threads |-> "idle"]
    /\ threadRec = [t \in Threads |-> NoRecord]

\* a list whose append adds to the list as the caller saw it when it
\* evaluated self.errors
ListAppendToSeen(live, seen, r) == Append(seen, r)

\* list.append: one atomic step of the interpreter on the list object, which
\* adds to the list as it is when the step is taken
ListAppend(live, seen, r) == Append(live, r)

\* log_error, lines 19-26: self.errors is evaluated, the record is built
ThreadBuild(t) ==
    /\ threadPc[t] = "idle"
    /\ \E m \in {"fetch", "segment"} :
          threadRec' = [threadRec EXCEPT
                          ![t] = [source |-> ThreadSource(t),
                                  error_type |-> "plugin_processing_failed",
                                  message |-> m, seen |-> errors]]
    /\ threadPc' = [threadPc EXCEPT ![t] = "built"]
    /\ UNCHANGED errors
    /\ UNCHANGED <<trackerVars, pc, force, plugins, idx, txtFiles, docs,
                   errorFile, chunkFiles, coreFiles, invoked, outcome, exc,
                   fault, savedChunks, chunkDoc, loadedChunks, batch, ids,
                   seen_ids, counter_map, text, chunks, shared, workerPc,
                   workerCache, workerLatest>>
    /\ UNCHANGED extractVars

\* log_error, line 19: the call of append
ThreadAppend(t) ==
    /\ threadPc[t] = "built"
    /\ errors' = ListAppend(errors, threadRec[t].seen,
                            LogError(<<>>, threadRec[t].source,
                                     threadRec[t].error_type,
                                     threadRec[t].message)[1])
    /\ threadPc' = [threadPc EXCEPT ![t] = "done"]
    /\ UNCHANGED threadRec
    /\ UNCHANGED <<trackerVars, pc, force, plugins, idx, txtFiles, docs,
                   errorFile, chunkFiles, coreFiles, invoked, outcome, exc,
                   fault, savedChunks, chunkDoc, loadedChunks, batch, ids,
                   seen_ids, counter_map, text, chunks, shared, workerPc,
                   workerCache, workerLatest>>
    /\ UNCHANGED extractVars

ThreadNext == \E t \in Threads : ThreadBuild(t) \/ ThreadAppend(t)

ThreadSpec == ThreadInit /\ [][ThreadNext]_vars

----------------------------------------------------------------------------
(* embedding_pipeline.py: chunk ids *)

\* Strings are sequences of symbols; "|||", "," and " > " are the symbols
\* the joins put between parts, and a text may hold them too.
Digits == <<"0", "1", "2", "3", "4", "5", "6", "7", "8", "9">>

\* str(n) for 0 <= n < 100
StrOfInt(n) ==
    IF n < 10 THEN <<Digits[n + 1]>>
    ELSE <<Digits[(n \div 10) + 1], Digits[(n % 10) + 1]>>

\* sep.join(parts)
RECURSIVE Join(_, _)
Join(parts, sep) ==
    IF parts = <<>> THEN <<>>
    ELSE IF Len(parts) = 1 THEN parts[1]
    ELSE parts[1] \o <<sep>> \o Join(Tail(parts), sep)

\* hashlib.sha256(...).hexdigest(), taken as injective on its input
Sha256(content) == [sha256 |-> content]

\* _generate_chunk_id, lines 135-145: the parts without the counter
IdParts(chunk) ==
    <<chunk.source, chunk.type, chunk.text>>
    \o (IF chunk.type = <<"vimdoc">>
        THEN (IF chunk.heading # <<>> THEN <<chunk.heading>> ELSE <<>>)
             \o (IF chunk.tags # <<>> THEN <<Join(chunk.tags, ",")>> ELSE <<>>)
        ELSE IF chunk.type = <<"markdown">>
        THEN (IF chunk.headings # <<>>
              THEN <<Join(chunk.headings, " > ")>> ELSE <<>>)
        ELSE <<>>)

\* a counter that is appended only from 2 on
WithCounterFromTwo(parts, counter) ==
    IF counter > 1 THEN Append(parts, StrOfInt(counter)) ELSE parts

\* _generate_chunk_id, lines 148-149
WithCounter(parts, counter) ==
    IF counter > 0 THEN Append(parts, StrOfInt(counter)) ELSE parts

\* _generate_chunk_id
GenerateChunkId(chunk, counter) ==
    Sha256(Join(WithCounter(IdParts(chunk), counter), "|||"))

\* the chunks of one source a batch is made of: markdown chunks with and
\* without a heading, vimdoc chunks with and without a tag
EmbedChunks ==
    {[type |-> <<"markdown">>, source |-> <<"s">>, text |-> body,
      heading |-> <<>>, tags |-> <<>>, headings |-> hs] :
        body \in {<<"t">>, <<"t", "|||", "1">>},
        hs \in {<<>>, << <<"1">> >>}}
    \cup {[type |-> <<"vimdoc">>, source |-> <<"s">>, text |-> <<"t">>,
           heading |-> <<"h">>, tags |-> ts, headings |-> <<>>] :
            ts \in {<<>>, << <<"g">> >>}}

Batches == UNION {[1..n -> EmbedChunks] : n \in 1..MaxBatch}

\* counter_map.get(base_id, 0)
MapGet(m, k, default) == IF k \in DOMAIN m THEN m[k] ELSE default

\* counter_map[base_id] = n
MapSet(m, k, n) == [x \in DOMAIN m \cup {k} |-> IF x = k THEN n ELSE m[x]]

\* _embed_and_store, lines 159-172: one batch, no id given yet
EmbedInit ==
    /\ ExtractIdle
    /\ upstream = [k \in Sources |-> FirstCommit]
    /\ cacheFile = NoCacheFile
    /\ cache = EmptyCache
    /\ NoCalls
    /\ RunIdle
    /\ StoreIdle
    /\ VimdocIdle
    /\ WorkersIdle
    /\ ThreadsIdle
    /\ batch \in Batches
    /\ ids = <<>>
    /\ seen_ids = {}
    /\ counter_map = <<>>

\* _embed_and_store, lines 174-185: one turn of the loop over the batch
EmbedStep ==
    /\ Len(ids) < Len(batch)
    /\ LET chunk == batch[Len(ids) + 1]
           base_id == GenerateChunkId(chunk, 0)
           n == MapGet(counter_map, base_id, 0) + 1
           chunk_id == IF base_id \in seen_ids
                       THEN GenerateChunkId(chunk, n) ELSE base_id
       IN  /\ counter_map' = IF base_id \in seen_ids
                             THEN MapSet(counter_map, base_id, n)
                             ELSE counter_map
           /\ ids' = Append(ids, chunk_id)
           /\ seen_ids' = seen_ids \cup {chunk_id}
    /\ UNCHANGED <<trackerVars, runVars, savedChunks, chunkDoc, loadedChunks,
                   batch, text, chunks, shared, workerPc, workerCache,
                   workerLatest, threadPc, threadRec>>
    /\ UNCHANGED extractVars

EmbedNext == EmbedStep

EmbedSpec == EmbedInit /\ [][EmbedNext]_vars

----------------------------------------------------------------------------
(* vim_doc_chunker.py: chunk_vimdoc, on strings as sequences of characters *)

NL == "\n"

Upper == {"A"}

Least(S) == CHOOSE i \in S : \A j \in S : i <= j

Greatest(S) == CHOOSE i \in S : \A j \in S : j <= i

\* c.isspace()
IsSpace(c) == c \in {" ", NL}

\* str.strip(): from the first to the last character that is not space
Strip(s) ==
    IF \A i \in 1..Len(s) : IsSpace(s[i]) THEN <<>>
    ELSE LET first == CHOOSE i \in 1..Len(s) :
                         /\ ~IsSpace(s[i])
                         /\ \A j \in 1..(i - 1) : IsSpace(s[j])
             last == CHOOSE i \in 1..Len(s) :
                        /\ ~IsSpace(s[i])
                        /\ \A j \in (i + 1)..Len(s) : IsSpace(s[j])
         IN  SubSeq(s, first, last)

\* str.split(c)
RECURSIVE SplitOn(_, _)
SplitOn(s, c) ==
    LET hits == {i \in 1..Len(s) : s[i] = c}
    IN  IF hits = {} THEN <<s>>
        ELSE <<SubSeq(s, 1, Least(hits) - 1)>>
             \o SplitOn(SubSeq(s, Least(hits) + 1, Len(s)), c)

\* a rule of 9 characters is a delimiter too
IsDelimiterFromNine(line) ==
    /\ Len(line) >= 9
    /\ \/ \A i \in 1..Len(line) : line[i] = "="
       \/ \A i \in 1..Len(line) : line[i] = "-"

\* a whole line matching ^[=]{10,}$ or ^[-]{10,}$
IsDelimiter(line) ==
    /\ Len(line) >= 10
    /\ \/ \A i \in 1..Len(line) : line[i] = "="
       \/ \A i \in 1..Len(line) : line[i] = "-"

\* re.split(section_pattern, text, flags=re.MULTILINE), line by line: the
\* characters of a delimiter line are removed, the newlines around it stay
RECURSIVE SplitSections(_, _)
SplitSections(lines, acc) ==
    IF lines = <<>> THEN <<Join(acc, NL)>>
    ELSE IF IsDelimiter(Head(lines))
    THEN <<Join(Append(acc, <<>>), NL)>>
         \o SplitSections(Tail(lines), << <<>> >>)
    ELSE SplitSections(Tail(lines), Append(acc, Head(lines)))

\* re.findall(r"\*([^*]+)\*", heading)
RECURSIVE FindTags(_)
FindTags(s) ==
    LET stars == {i \in 1..Len(s) : s[i] = "*"}
    IN  IF Cardinality(stars) < 2 THEN <<>>
        ELSE LET i == Least(stars)
                 j == Least(stars \ {i})
             IN  IF j = i + 1 THEN FindTags(SubSeq(s, j, Len(s)))
                 ELSE <<SubSeq(s, i + 1, j - 1)>>
                      \o FindTags(SubSeq(s, j + 1, Len(s)))

\* the last position of a match of \n\n+|\n[A-Z].*?~\n starting at i, 0 if
\* there is none
MatchEnd(s, i) ==
    IF s[i] # NL \/ i = Len(s) THEN 0
    ELSE IF s[i + 1] = NL
    THEN Greatest({j \in (i + 1)..Len(s) :
                      \A k \in (i + 1)..j : s[k] = NL})
    ELSE IF s[i + 1] \in Upper
    THEN LET ends == {j \in (i + 2)..(Len(s) - 1) :
                         /\ s[j] = "~"
                         /\ s[j + 1] = NL
                         /\ \A k \in (i + 2)..(j - 1) : s[k] # NL}
         IN  IF ends = {} THEN 0 ELSE Least(ends) + 1
    ELSE 0

\* re.split(r"\n\n+|\n[A-Z].*?~\n", body)
RECURSIVE SubSections(_)
SubSections(s) ==
    LET m == {i \in 1..Len(s) : MatchEnd(s, i) > 0}
    IN  IF m = {} THEN <<s>>
        ELSE <<SubSeq(s, 1, Least(m) - 1)>>
             \o SubSections(SubSeq(s, MatchEnd(s, Least(m)) + 1, Len(s)))

SubChunkOver == 4000

TinyBelow == 100

\* a body from SubChunkOver characters on is sub-chunked
TooLongFrom(body) == Len(body) >= SubChunkOver

\* line 38: len(body) > 4000
TooLong(body) == Len(body) > SubChunkOver

\* line 43: len(sub) < 100
Tiny(sub) == Len(sub) < TinyBelow

\* the fragments of a long body that are kept, each as a chunk
RECURSIVE SubChunks(_, _, _, _)
SubChunks(subs, source, heading, tags) ==
    IF subs = <<>> THEN <<>>
    ELSE LET sub == Strip(Head(subs))
             rest == SubChunks(Tail(subs), source, heading, tags)
         IN  IF Tiny(sub) THEN rest
             ELSE <<VimdocChunk(source, heading, tags, sub)>> \o rest

\* chunk_vimdoc, lines 21-63: the chunks of one non-empty stripped part
SectionChunks(part, source) ==
    LET lines == SplitOn(part, NL)
        filled == {i \in 1..Len(lines) : Strip(lines[i]) # <<>>}
        heading == IF filled = {} THEN <<>> ELSE Strip(lines[Least(filled)])
        heading_idx == IF filled = {} THEN 1 ELSE Least(filled)
        tags == FindTags(heading)
        body_lines == SubSeq(lines, heading_idx + 1, Len(lines))
        body == Strip(Join(body_lines, NL))
    IN  IF TooLong(body)
        THEN SubChunks(SubSections(body), source, heading, tags)
        ELSE <<VimdocChunk(source, heading, tags, body)>>

\* chunk_vimdoc, lines 17-63: the loop over the parts
RECURSIVE PartsChunks(_, _)
PartsChunks(parts, source) ==
    IF parts = <<>> THEN <<>>
    ELSE LET part == Strip(Head(parts))
             rest == PartsChunks(Tail(parts), source)
         IN  IF part = <<>> THEN rest
             ELSE SectionChunks(part, source) \o rest

\* chunk_vimdoc
ChunkVimdoc(t, source) ==
    PartsChunks(SplitSections(SplitOn(t, NL), <<>>), source)

Rule(c, n) == [i \in 1..n |-> c]

\* the lines a help file is made of: delimiters, a line of 9 "=", blank
\* lines, a heading with a tag, a plain line
VimdocLines ==
    {Rule("=", 10), Rule("-", 11), Rule("=", 9), <<>>, <<" ">>,
     <<"h", " ", "*", "g", "*">>, <<"b">>}

ShortTexts ==
    {Join(ls, NL) : ls \in UNION {[1..n -> VimdocLines] : n \in 0..MaxLines}}

\* help files of two sections, each a heading line and a body line
TwoSections ==
    {Join(<<h1, <<"b">>, d, h2, <<" ", "b">>, e>>, NL) :
        h1 \in {<<"h", " ", "*", "g", "*">>},
        h2 \in {<<"h">>, <<"*", "g", "*", " ", "*", "k", "*">>},
        d \in {Rule("=", 10), Rule("-", 11)},
        e \in {<<>>, Rule("-", 10)}}

\* help files of one section whose body is two runs of text, around the
\* two thresholds, with a blank line or a subsection marker between them
LongTexts ==
    {Join(<<<<"h", " ", "*", "g", "*">>, Rule("b", m), sep, Rule("b", n)>>,
          NL) :
        m \in {SubChunkOver - 102, SubChunkOver - 50},
        n \in {TinyBelow - 1, TinyBelow, TinyBelow + 1},
        sep \in {<<>>, <<"A", "~">>}}

VimdocTexts == ShortTexts \cup TwoSections \cup LongTexts

NotChunked == [st |-> "none", v |-> <<>>]

VimdocInit ==
    /\ ExtractIdle
    /\ upstream = [k \in Sources |-> FirstCommit]
    /\ cacheFile = NoCacheFile
    /\ cache = EmptyCache
    /\ NoCalls
    /\ RunIdle
    /\ StoreIdle
    /\ EmbedIdle
    /\ WorkersIdle
    /\ ThreadsIdle
    /\ text \in VimdocTexts
    /\ chunks = NotChunked

\* one call chunk_vimdoc(text, "s")
VimdocCall ==
    /\ chunks = NotChunked
    /\ chunks' = [st |-> "returned", v |-> ChunkVimdoc(text, "s")]
    /\ UNCHANGED <<trackerVars, runVars, savedChunks, chunkDoc, loadedChunks,
                   batch, ids, seen_ids, counter_map, text, shared, workerPc,
                   workerCache, workerLatest, threadPc, threadRec>>
    /\ UNCHANGED extractVars

VimdocNext == VimdocCall

VimdocSpec == VimdocInit /\ [][VimdocNext]_vars

----------------------------------------------------------------------------
(* readme_chunker.py: chunk_markdown. A README is a sequence of blocks;
   MarkdownIt().parse turns it into the token stream the function scans. *)

\* the character U+0060
Backtick == "bq"

Child(type, content) == [type |-> type, content |-> content]

Token(type, tag, info, content, children) ==
    [type |-> type, tag |-> tag, info |-> info, content |-> content,
     children |-> children]

Plain(type) == Token(type, <<>>, <<>>, <<>>, <<>>)

\* the source text of an inline child
RawOf(child) ==
    IF child.type = "code_inline" THEN <<Backtick>> \o child.content \o <<Backtick>>
    ELSE IF child.type = "softbreak" THEN <<NL>>
    ELSE IF child.type = "image" THEN <<"!">> \o child.content
    ELSE child.content

RECURSIVE Concat(_)
Concat(ss) == IF ss = <<>> THEN <<>> ELSE Head(ss) \o Concat(Tail(ss))

\* the inline token of a run of children
Inline(children) ==
    Token("inline", <<>>, <<>>,
          Concat([k \in 1..Len(children) |-> RawOf(children[k])]), children)

Block(b, level, info, content, inline, items) ==
    [b |-> b, level |-> level, info |-> info, content |-> content,
     inline |-> inline, items |-> items]

Heading(level, inline) == Block("heading", level, <<>>, <<>>, inline, <<>>)

Paragraph(inline) == Block("paragraph", 0, <<>>, <<>>, inline, <<>>)

Fence(info, content) == Block("fence", 0, info, content, <<>>, <<>>)

HtmlBlock(content) == Block("html", 0, <<>>, content, <<>>, <<>>)

BulletList(items) == Block("list", 0, <<>>, <<>>, <<>>, items)

\* the tokens of a list item holding one paragraph
ItemTokens(inline) ==
    <<Plain("list_item_open"), Plain("paragraph_open"), Inline(inline),
      Plain("paragraph_close"), Plain("list_item_close")>>

\* md.parse, one block
BlockTokens(blk) ==
    CASE blk.b = "heading" ->
           <<Token("heading_open", <<"h", Digits[blk.level + 1]>>, <<>>, <<>>,
                   <<>>),
             Inline(blk.inline),
             Token("heading_close", <<"h", Digits[blk.level + 1]>>, <<>>,
                   <<>>, <<>>)>>
      [] blk.b = "paragraph" ->
           <<Plain("paragraph_open"), Inline(blk.inline),
             Plain("paragraph_close")>>
      [] blk.b = "fence" ->
           <<Token("fence", <<"code">>, blk.info, blk.content, <<>>)>>
      [] blk.b = "html" ->
           <<Token("html_block", <<>>, <<>>, blk.content, <<>>)>>
      [] blk.b = "list" ->
           <<Plain("bullet_list_open")>>
           \o Concat([k \in 1..Len(blk.items) |-> ItemTokens(blk.items[k])])
           \o <<Plain("bullet_list_close")>>

\* md.parse(text)
Parse(t) == Concat([k \in 1..Len(t) |-> BlockTokens(t[k])])

\* every child adds its content, inline HTML included
ChildTextWithHtml(child) ==
    CASE child.type = "code_inline" ->
           <<Backtick>> \o child.content \o <<Backtick>>
      [] child.type \in {"softbreak", "hardbreak"} -> <<NL>>
      [] child.type \in {"text", "html_inline"} -> child.content
      [] OTHER -> <<>>

\* extract_inline_text, lines 141-157: what one child adds
ChildText(child) ==
    CASE child.type = "text" -> child.content
      [] child.type = "code_inline" -> <<Backtick>> \o child.content \o <<Backtick>>
      [] child.type \in {"softbreak", "hardbreak"} -> <<NL>>
      [] OTHER -> <<>>

\* extract_inline_text
ExtractInlineText(token) ==
    IF token.children = <<>> THEN token.content
    ELSE Concat([k \in 1..Len(token.children) |->
                    ChildText(token.children[k])])

\* int(token.tag[1])
LevelOf(token) == CHOOSE n \in 0..9 : Digits[n + 1] = token.tag[2]

\* the stack grows by the heading, whatever its level
HeadingStackPush(heading_stack, level, heading_text) ==
    Append(heading_stack, heading_text)

\* line 51: heading_stack[: level - 1] + [heading_text]
HeadingStack(heading_stack, level, heading_text) ==
    Append(SubSeq(heading_stack, 1,
                  IF level - 1 < Len(heading_stack) THEN level - 1
                  ELSE Len(heading_stack)),
           heading_text)

\* lines 30-40 and 117-127: the chunk of the accumulated text, if any
Flush(current_text_parts, heading_stack, source) ==
    IF current_text_parts # <<>>
          /\ Strip(Join(current_text_parts, NL)) # <<>>
    THEN <<MarkdownChunk(source, heading_stack,
                         Strip(Join(current_text_parts, NL)))>>
    ELSE <<>>

\* str.rstrip("\n")
RStripNL(s) ==
    IF \A i \in 1..Len(s) : s[i] = NL THEN <<>>
    ELSE SubSeq(s, 1, CHOOSE i \in 1..Len(s) :
                          /\ s[i] # NL
                          /\ \A j \in (i + 1)..Len(s) : s[j] = NL)

\* the fence markers alone, without the code
FenceMarkers(token) ==
    <<Backtick, Backtick, Backtick>> \o token.info
    \o <<NL, Backtick, Backtick, Backtick>>

\* line 71: f"```{lang}\n{code}\n```"
FenceText(token) ==
    <<Backtick, Backtick, Backtick>> \o token.info \o <<NL>> \o RStripNL(token.content)
    \o <<NL, Backtick, Backtick, Backtick>>

\* lines 86-94: the tokens of one list item, up to list_item_close
RECURSIVE ListItem(_, _, _)
ListItem(tokens, i, item_parts) ==
    IF i <= Len(tokens) /\ tokens[i].type # "list_item_close"
    THEN IF tokens[i].type = "paragraph_open"
         THEN ListItem(tokens, i + 3,
                  IF tokens[i + 1].type = "inline"
                  THEN Append(item_parts, ExtractInlineText(tokens[i + 1]))
                  ELSE item_parts)
         ELSE ListItem(tokens, i + 1, item_parts)
    ELSE [i |-> i, item_parts |-> item_parts]

\* lines 81-99: the items of one list
RECURSIVE ListItems(_, _, _)
ListItems(tokens, i, list_text) ==
    IF i <= Len(tokens) /\ tokens[i].type = "list_item_open"
    THEN LET item == ListItem(tokens, i + 1, <<>>)
         IN  ListItems(tokens, item.i + 1,
                 IF item.item_parts # <<>>
                 THEN Append(list_text, Join(item.item_parts, " "))
                 ELSE list_text)
    ELSE [i |-> i, list_text |-> list_text]

\* lines 24-127: the scan from token i on
RECURSIVE Scan(_, _, _, _, _)
Scan(tokens, i, heading_stack, current_text_parts, source) ==
    IF i > Len(tokens)
    THEN Flush(current_text_parts, heading_stack, source)
    ELSE LET token == tokens[i] IN
      CASE token.type = "heading_open" ->
             Flush(current_text_parts, heading_stack, source)
             \o Scan(tokens, i + 3,
                     HeadingStack(heading_stack, LevelOf(token),
                         IF i + 1 <= Len(tokens) /\ tokens[i + 1].type = "inline"
                         THEN ExtractInlineText(tokens[i + 1]) ELSE <<>>),
                     <<>>, source)
        [] token.type = "paragraph_open" ->
             Scan(tokens, i + 3, heading_stack,
                  IF i + 1 <= Len(tokens) /\ tokens[i + 1].type = "inline"
                        /\ Strip(ExtractInlineText(tokens[i + 1])) # <<>>
                  THEN Append(current_text_parts,
                              ExtractInlineText(tokens[i + 1]))
                  ELSE current_text_parts,
                  source)
        [] token.type \in {"fence", "code_block"} ->
             Scan(tokens, i + 1, heading_stack,
                  Append(current_text_parts, FenceText(token)), source)
        [] token.type \in {"bullet_list_open", "ordered_list_open"} ->
             LET list == ListItems(tokens, i + 1, <<>>)
             IN  Scan(tokens, list.i + 1, heading_stack,
                      IF list.list_text # <<>>
                      THEN Append(current_text_parts,
                                  Join(list.list_text, NL))
                      ELSE current_text_parts,
                      source)
        [] OTHER ->
             Scan(tokens, i + 1, heading_stack, current_text_parts, source)

\* chunk_markdown
ChunkMarkdown(t, source) == Scan(Parse(t), 1, <<>>, <<>>, source)

Txt(content) == Child("text", content)

\* the blocks a README is made of
MarkdownBlocks ==
    {Heading(1, <<Txt(<<"P">>)>>),
     Heading(2, <<Txt(<<"I">>)>>),
     Heading(3, <<Txt(<<"U">>)>>),
     Paragraph(<<Txt(<<"d">>)>>),
     Paragraph(<<Child("html_inline", <<"<", "b", ">">>), Txt(<<"e">>),
                 Child("html_inline", <<"<", "/", "b", ">">>)>>),
     Paragraph(<<Child("image", <<"i">>)>>),
     Fence(<<"l">>, <<"c", NL>>),
     HtmlBlock(<<"<", "v", ">", NL>>),
     BulletList(<< <<Txt(<<"a">>)>>, <<Txt(<<"b">>), Child("code_inline", <<"k">>)>> >>)}

ShortReadmes == UNION {[1..n -> MarkdownBlocks] : n \in 0..MaxBlocks}

\* an h1 section with a paragraph, then an h2 section with a paragraph and
\* a fenced code block, then what may follow
SampleReadmes ==
    {<<Heading(1, <<Txt(<<"P">>)>>), Paragraph(<<Txt(<<"d">>)>>),
       Heading(2, <<Txt(<<"I">>)>>), Paragraph(<<Txt(<<"y">>)>>),
       Fence(<<"l">>, <<"c", NL>>)>> \o rest :
        rest \in {<<>>, <<Heading(2, <<Txt(<<"U">>)>>),
                          Paragraph(<<Txt(<<"d">>)>>)>>}}

MarkdownTexts == ShortReadmes \cup SampleReadmes

MarkdownInit ==
    /\ ExtractIdle
    /\ upstream = [k \in Sources |-> FirstCommit]
    /\ cacheFile = NoCacheFile
    /\ cache = EmptyCache
    /\ NoCalls
    /\ RunIdle
    /\ StoreIdle
    /\ EmbedIdle
    /\ WorkersIdle
    /\ ThreadsIdle
    /\ text \in MarkdownTexts
    /\ chunks = NotChunked

\* one call chunk_markdown(text, "s")
MarkdownCall ==
    /\ chunks = NotChunked
    /\ chunks' = [st |-> "returned", v |-> ChunkMarkdown(text, "s")]
    /\ UNCHANGED <<trackerVars, runVars, savedChunks, chunkDoc, loadedChunks,
                   batch, ids, seen_ids, counter_map, text, shared, workerPc,
                   workerCache, workerLatest, threadPc, threadRec>>
    /\ UNCHANGED extractVars

MarkdownNext == MarkdownCall

MarkdownSpec == MarkdownInit /\ [][MarkdownNext]_vars

----------------------------------------------------------------------------
(* plugin_list_extractor.py: extract_plugin_list. Names are sequences of
   symbols: a letter, "-", "_", "/" or the ending ".nvim". *)

\* config before the configuration file is read
DefaultConfig == [overrides |-> <<>>, ignore |-> {}, always_include |-> <<>>]

\* lines 28-31: config.update(json.load(f)) when the file exists
LoadConfig(file) ==
    IF file.st = "absent" THEN DefaultConfig
    ELSE [overrides |-> file.overrides, ignore |-> file.ignore,
          always_include |-> file.always_include]

\* r.endswith(suffix)
EndsWith(r, suffix) ==
    /\ Len(suffix) <= Len(r)
    /\ SubSeq(r, Len(r) - Len(suffix) + 1, Len(r)) = suffix

\* str.lower(), one symbol
Lower(c) == IF c = "T" THEN "t" ELSE c

NotDropped(c) == c \notin {".nvim", "-", "_"}

\* .lower().replace(".nvim", "").replace("-", "").replace("_", "")
Normalize(name) ==
    SelectSeq([k \in 1..Len(name) |-> Lower(name[k])], NotDropped)

\* repo.split("/")[-1]
RepoPart(repo) ==
    IF \E i \in 1..Len(repo) : repo[i] = "/"
    THEN SubSeq(repo,
                (CHOOSE i \in 1..Len(repo) :
                    /\ repo[i] = "/"
                    /\ \A j \in (i + 1)..Len(repo) : repo[j] # "/") + 1,
                Len(repo))
    ELSE repo

\* lines 58 and 89: the owner/repo strings ending in /plugin_name
Exact(repos, plugin_name) ==
    SelectSeq(repos, LAMBDA r : EndsWith(r, <<"/">> \o plugin_name))

\* lines 63-76: the owner/repo strings equal to the name once normalized
Loose(repos, plugin_name) ==
    SelectSeq(repos, LAMBDA r : Normalize(RepoPart(r)) = Normalize(plugin_name))

\* lines 52-76: what one name of the lock file is matched with, if anything
Matched(cfg, repos, plugin_name) ==
    IF plugin_name \in DOMAIN cfg.overrides
    THEN <<cfg.overrides[plugin_name]>>
    ELSE IF Exact(repos, plugin_name) # <<>>
    THEN <<Exact(repos, plugin_name)[1]>>
    ELSE IF Loose(repos, plugin_name) # <<>>
    THEN <<Loose(repos, plugin_name)[1]>>
    ELSE <<>>

LazyNvim == <<"lazy", ".nvim">>

FolkeLazy == <<"folke", "/", "lazy", ".nvim">>

\* lines 79-91: the names of always_include, one after the other
RECURSIVE AlwaysInclude(_, _, _, _)
AlwaysInclude(res, cfg, repos, names) ==
    IF names = <<>> THEN res
    ELSE LET plugin_name == Head(names)
             next == IF plugin_name \in DOMAIN cfg.overrides
                     THEN MapSet(res, plugin_name, cfg.overrides[plugin_name])
                     ELSE IF plugin_name = LazyNvim
                     THEN MapSet(res, plugin_name, FolkeLazy)
                     ELSE IF Exact(repos, plugin_name) # <<>>
                     THEN MapSet(res, plugin_name, Exact(repos, plugin_name)[1])
                     ELSE res
         IN  AlwaysInclude(next, cfg, repos, Tail(names))

\* extract_plugin_list
ExtractPluginList(lock, repos, cfg) ==
    LET plugin_names == lock \ cfg.ignore
        matched == {n \in plugin_names : Matched(cfg, repos, n) # <<>>}
    IN  AlwaysInclude([n \in matched |-> Matched(cfg, repos, n)[1]],
                      cfg, repos, cfg.always_include)

\* plugin names: one found as it is, one found once normalized, lazy.nvim
PluginNames == {<<"t", ".nvim">>, <<"T", "-", "k">>, LazyNvim}

\* what the regular expression finds in the lua files, in rglob order
SpecMatches ==
    {<<>>,
     << <<"o", "/", "t", ".nvim">> >>,
     << <<"o", "/", "t", "k", ".nvim">>, <<"o", "/", "t", ".nvim">>,
        <<"p", "/", "t", ".nvim">> >>}

ConfigFiles ==
    {[st |-> "absent", overrides |-> <<>>, ignore |-> {},
      always_include |-> <<>>]}
    \cup [st : {"ok"},
          overrides : {<<>>, [n \in {<<"t", ".nvim">>} |-> <<"q", "/", "t">>]},
          ignore : SUBSET PluginNames,
          always_include : {<<>>} \cup {<<n>> : n \in PluginNames}
                           \cup {<<LazyNvim, <<"t", ".nvim">> >>}]

ExtractorInit ==
    /\ upstream = [k \in Sources |-> FirstCommit]
    /\ cacheFile = NoCacheFile
    /\ cache = EmptyCache
    /\ NoCalls
    /\ RunIdle
    /\ ComponentsIdle

\* one call extract_plugin_list(lazy_lock_path, lazy_specs_dir, config_path)
ExtractCall ==
    /\ result.st = "none"
    /\ \E lock \in SUBSET PluginNames, repos \in SpecMatches,
          file \in ConfigFiles :
         /\ lock_data' = lock
         /\ owner_repos' = repos
         /\ config' = LoadConfig(file)
         /\ result' = [st |-> "returned",
                       v |-> ExtractPluginList(lock, repos, LoadConfig(file))]
    /\ UNCHANGED <<trackerVars, runVars, savedChunks, chunkDoc, loadedChunks,
                   batch, ids, seen_ids, counter_map, text, chunks, shared,
                   workerPc, workerCache, workerLatest, threadPc, threadRec>>

ExtractorNext == ExtractCall

ExtractorSpec == ExtractorInit /\ [][ExtractorNext]_vars

----------------------------------------------------------------------------
(* Claims *)

\* a step of TrackerSpec that is one needs_update call
IsCall == calls' = calls + 1

\* the call of that step returned (did not raise)
Returned == ~call'.raised

\* C1: whenever the release lookup yields no version, needs_update returns
\* False and leaves the in-memory cache and the cache file as they were.
C1_FailedLookupLeavesCache ==
    [][(IsCall /\ call'.latest = None)
        => /\ Returned
           /\ call'.result = FALSE
           /\ cache' = cache
           /\ cacheFile' = cacheFile]_vars

\* a failed lookup for a key the cache holds a version for
C1_Witness ==
    /\ calls > 0
    /\ call.latest = None
    /\ cache[call.key] # None
    /\ cacheFile.st = "ok"

\* what C2 says of one call with a determinate version: a hit returns False
\* and writes nothing, a miss stores the version, rewrites the file and
\* returns True
C2_CallContract ==
    (IsCall /\ Returned /\ call'.latest # None)
        => IF cache[call'.key] = call'.latest
           THEN /\ call'.result = FALSE
                /\ cacheFile' = cacheFile
                /\ cache' = cache
           ELSE /\ call'.result = TRUE
                /\ cache' = [cache EXCEPT ![call'.key] = call'.latest]
                /\ cacheFile' = CacheAsFile(cache')

C3_Original ==
    [][\A k \in Sources :
        (IsCall /\ Returned /\ call'.key = k /\ called[k])
            => IF CurrentVersion(upstream[k]) # atCall[k]
               THEN call'.result = TRUE
               ELSE call'.result = FALSE /\ cache' = cache]_vars

\* C3, amended: a call whose lookup yields no version returns False and
\* leaves the cache unchanged; a call whose lookup yields the version of the
\* latest earlier determinate lookup for the key returns False and leaves
\* the cache unchanged; a call whose lookup yields another version stores it
\* and returns True, unless writing the cache file raises.
C3_TrueOncePerObservedChange ==
    [][\A k \in Sources :
        (IsCall /\ call'.key = k /\ call'.latest # Raised)
            => IF call'.latest = None \/ call'.latest = lastSeen[k]
               THEN Returned /\ call'.result = FALSE /\ cache' = cache
               ELSE /\ cache'[k] = call'.latest
                    /\ Returned => call'.result = TRUE]_vars

\* a repeated call after a release: the version was stored before, and the
\* call returns False
C3_Witness ==
    /\ calls >= 3
    /\ ~call.raised
    /\ call.result = FALSE
    /\ call.latest = "v1"
    /\ lastSeen[call.key] = "v1"
    /\ called[call.key]

\* the source whose plugin-loop iteration is in progress
InProgress(k) == pc \in {"fetch", "chunk"} /\ plugins[idx] = k

\* C4: the cache file holds for a source only a version whose fetch,
\* segmentation and save were carried out (or are being carried out).
C4_CacheOnlyActedOn ==
    \A k \in Sources :
        (cacheFile.st = "ok" /\ cacheFile.data[k] # None /\ ~InProgress(k))
            => /\ chunkFiles[Repo(k)].st = "ok"
               /\ chunkFiles[Repo(k)].ver = cacheFile.data[k]

\* a step of the plugin loop in which the fetcher or a segmenter raised
SourceRaised == pc \in {"fetch", "chunk"} /\ fault' \in {"fetch", "segment"}

\* C5: if the fetcher or a segmenter raises while processing plugin source
\* X, the error log gains exactly one record, whose source is X, and the
\* chunk batch stored for X is left unchanged.
C5_RaiseLoggedOnce ==
    [][SourceRaised
        => /\ Len(errors') = Len(errors) + 1
           /\ SubSeq(errors', 1, Len(errors)) = errors
           /\ Last(errors').source = plugins[idx]
           /\ Last(errors').error_type = "plugin_processing_failed"
           /\ chunkFiles' = chunkFiles]_vars

\* a segmenter raised for a source whose batch is on disk
C5_Witness ==
    /\ fault = "segment"
    /\ pc \in {"check", "finalize"}
    /\ Len(errors) > 0
    /\ Len(Last(errors).source) = 2
    /\ Last(errors).source \in Sources
    /\ chunkFiles[Repo(Last(errors).source)].st = "ok"
    /\ chunkFiles[Repo(Last(errors).source)].source = Last(errors).source

\* C6: a failure while handling one source (the core docs step, a plugin's
\* version check, fetch or segmentation) never aborts the run.
C6_SourceFailureNeverAborts ==
    pc = "aborted" => exc \notin {"core_fetch", "lookup"}

\* the batch file of the source under the version check
BatchExists == chunkFiles[Repo(plugins[idx])].st # "absent"

\* C7: with force off, when needs_update returns False and the batch file of
\* the source exists, the source is skipped: neither the fetcher nor a
\* segmenter is invoked for it and its batch file is left unmodified.
C7_UpToDateSkipped ==
    /\ [][(pc = "check" /\ ~force /\ ~call'.raised /\ ~call'.result
              /\ BatchExists)
            => /\ pc' \in {"check", "finalize"}
               /\ idx' = idx + 1
               /\ invoked' = invoked
               /\ chunkFiles' = chunkFiles
               /\ outcome' = Journal(outcome, plugins[idx], "skipped", 0)]_vars
    /\ [](\A i \in 1..Len(outcome) :
            outcome[i].what = "skipped"
                => /\ <<"fetch", outcome[i].source>> \notin invoked
                   /\ <<"segment", outcome[i].source>> \notin invoked)

\* a source skipped because the cache holds its current version
C7_Witness ==
    /\ ~force
    /\ Len(outcome) > 0
    /\ Last(outcome).what = "skipped"
    /\ call.key = Last(outcome).source
    /\ call.latest # None
    /\ call.latest = cache[call.key]

AllFiles == {chunkFiles[r] : r \in Repos} \cup {coreFiles[d] : d \in CoreStems}

\* a step in which segmentation ran cleanly and yielded zero chunks
YieldedNothing ==
    /\ pc \in {"chunk", "core_file"}
    /\ fault' = None
    /\ Last(outcome').chunks = 0

\* C8: when segmentation yields zero chunks nothing is persisted: the stored
\* batches are left unchanged, and every batch file written has
\* chunk_count >= 1.
C8_NoEmptyBatch ==
    /\ [][YieldedNothing
            => chunkFiles' = chunkFiles /\ coreFiles' = coreFiles]_vars
    /\ [](\A f \in AllFiles : f.st = "ok" => f.count >= 1)

\* zero chunks for a plugin whose batch is on disk
C8_Witness ==
    /\ Len(outcome) > 0
    /\ Last(outcome).what = "empty"
    /\ Last(outcome).source \in Sources
    /\ chunkFiles[Repo(Last(outcome).source)].st = "ok"

\* the source an error record names for a journal source
LogSourceOf(src) ==
    IF src[1] = "neovim-core" THEN CoreLogSource(src[2]) ELSE src

\* C9: for every source attempted in the run that did not end with a newly
\* persisted batch (an exception, or zero chunks), the error log holds at
\* least one record for that source.
C9_EveryFailureLogged ==
    \A i \in 1..Len(outcome) :
        outcome[i].what \in {"failed", "empty"}
            => \E j \in 1..Len(errors) :
                  errors[j].source = LogSourceOf(outcome[i].source)

\* C10: when save_chunks, _save_cache or ErrorLogger.save fails, the run
\* terminates with an error.
C10_PersistenceFailureFatal ==
    fault = "write" => pc = "aborted"

\* C11: a failed release lookup never reaches the orchestrator as an error:
\* needs_update returns a boolean for every outcome of the lookup, and the
\* loop over sources is not interrupted by a version lookup.
C11_LookupNeverPropagates ==
    /\ ~(call.raised /\ call.latest = Raised)
    /\ exc # "lookup"

IsPrefix(a, b) == Len(a) <= Len(b) /\ SubSeq(b, 1, Len(a)) = a

\* C13: the error log only accumulates: log_error only appends to the
\* in-run list, save leaves in the file the records it held before, in
\* their order, followed by this run's, and no persisted record is ever
\* removed, replaced or reordered.
C13_LogOnlyAccumulates ==
    [][/\ errors' # errors
            => errors' = <<>> \/ IsPrefix(errors, errors')
       /\ (errorFile' # errorFile /\ errorFile'.st = "ok")
            => Stored(errorFile') = Stored(errorFile) \o errors
       /\ IsPrefix(Stored(errorFile), Stored(errorFile'))]_vars

C15_DistinctSourcesDistinctFiles ==
    [][\A r \in Repos :
        (chunkFiles[r].st # "absent" /\ chunkFiles'[r] # chunkFiles[r])
            => chunkFiles'[r].source = chunkFiles[r].source]_vars

\* the chunk_count a reader finds in an envelope
CountOf(d) == DictGet(JsonLoad(d), "chunk_count", PyInt(0)).v

\* C12: load_chunks of the file save_chunks wrote returns the chunk list
\* saved, in order and with every field of every chunk, and the envelope's
\* chunk_count is the length of that list; load_chunks of a legacy file, a
\* bare chunk list, returns that list.
C12_SaveLoadRoundTrip ==
    /\ loadedChunks # NotLoaded => loadedChunks = savedChunks
    /\ chunkDoc.js = "object" => CountOf(chunkDoc) = Len(savedChunks.v)

\* a list of two different chunks read back from a legacy file
C12_Witness ==
    /\ chunkDoc.js = "array"
    /\ loadedChunks.py = "list"
    /\ Len(loadedChunks.v) = 2
    /\ loadedChunks.v[1] # loadedChunks.v[2]

\* C16: two needs_update calls for different keys that run at the same time
\* on one cache file and both find a new version do not race: once both
\* have returned, the cache file is complete and holds the new value of
\* both keys.
C16_NoLostUpdate ==
    (\A w \in Workers : workerPc[w] = "done")
        => /\ cacheFile.st = "ok"
           /\ \A w \in Workers : cacheFile.data[WorkerKey(w)] = workerLatest[w]

\* the positions of the log that hold a record of thread t
RecordsOf(t) == {i \in 1..Len(errors) : errors[i].source = ThreadSource(t)}

\* C17: when several threads call log_error on one ErrorLogger at the same
\* time, every call adds exactly one complete record: in every interleaving
\* the log holds one record, as built, for each call that has returned, and
\* nothing else.
C17_AppendThreadSafe ==
    /\ Len(errors) = Cardinality({t \in Threads : threadPc[t] = "done"})
    /\ \A t \in Threads :
          IF threadPc[t] = "done"
          THEN /\ Cardinality(RecordsOf(t)) = 1
               /\ \A i \in RecordsOf(t) :
                     /\ errors[i].error_type = threadRec[t].error_type
                     /\ errors[i].message = threadRec[t].message
          ELSE RecordsOf(t) = {}

\* every thread has logged, the last to build its record not the last to
\* append it
C17_Witness ==
    /\ \A t \in Threads : threadPc[t] = "done"
    /\ \E t \in Threads :
          /\ Len(threadRec[t].seen) = 0
          /\ errors[Len(errors)].source = ThreadSource(t)

\* C18: for two chunks identical on source, type, text and the
\* discriminators of their kind, the id computed with counter 0 differs
\* from the id computed with counter 1.
C18_CounterChangesId ==
    \A i, j \in 1..Len(batch) :
        batch[i] = batch[j]
            => GenerateChunkId(batch[i], 0) # GenerateChunkId(batch[j], 1)

\* a chunk and its duplicate were given the ids of counter 0 and counter 1
C18_Witness ==
    /\ Len(ids) >= 2
    /\ batch[1] = batch[2]
    /\ ids[1] = GenerateChunkId(batch[1], 0)
    /\ ids[2] = GenerateChunkId(batch[2], 1)
    /\ ids[1] # ids[2]

\* the number of chunks before position i that are identical to the i-th
Earlier(i) == Cardinality({j \in 1..(i - 1) : batch[j] = batch[i]})

\* C19: within one batch the counters go by scan order: among the chunks
\* identical on all identity fields the first gets counter 0, the second
\* counter 1, the third counter 2, whatever else the batch holds.
C19_CountersByScanOrder ==
    \A i \in 1..Len(ids) : ids[i] = GenerateChunkId(batch[i], Earlier(i))

\* the text of a chunk
TextOf(c) == DictGet(c, "text", PyStr(<<>>)).v

\* C20: chunk_vimdoc never returns a chunk whose text is empty after
\* trimming; a segment that is a heading line with an empty body gives no
\* chunk.
C20_NoEmptyText ==
    \A i \in 1..Len(chunks.v) : Strip(TextOf(chunks.v[i])) # <<>>

\* C30: all ids given within one batch are pairwise distinct, whatever the
\* batch holds and in whatever order, the hash being injective: no two
\* positions of the batch receive the same id.
C30_IdsPairwiseDistinct ==
    \A i, j \in 1..Len(ids) : i # j => ids[i] # ids[j]

\* C25: the batch file of a source is at every point a complete batch, the
\* previous one or a new one: a failing stage, a failure inside save_chunks
\* after the file was opened included, never leaves it truncated or
\* partially written.
C25_StoredBatchComplete ==
    \A r \in Repos : chunkFiles[r].st # "partial"

\* the run is over and ErrorLogger.save itself did not fail
RunEnded ==
    /\ pc \in {"done", "aborted"}
    /\ exc \notin {"errlog_read", "errlog_write"}

\* C28: every error recorded with log_error during a run is in the error
\* log file by the time the run ends, also when the run ends by an
\* exception out of plugin extraction, the core step or the plugin loop.
C28_ErrorsPersistedAtEnd ==
    RunEnded => \A i \in 1..Len(errors) :
                    \E j \in 1..Len(Stored(errorFile)) :
                        Stored(errorFile)[j] = errors[i]

\* C29: over non-forced runs, once the upstream version of a plugin with a
\* stored batch has changed to v, and fetch and segmentation succeed from
\* some run on, the stored batch of the plugin is eventually one of v; a
\* fetch failure in the run that first saw v does not make later runs skip
\* the plugin.
C29_ChangeEventuallyIngested ==
    (upstream[Watched].tag = "v1") ~> (chunkFiles[Repo(Watched)].ver = "v1")

\* a whole line of 10 or more "=" or of 10 or more "-"
Boundary(line) ==
    /\ Len(line) >= 10
    /\ \E c \in {"=", "-"} : \A i \in 1..Len(line) : line[i] = c

\* the runs of lines between the boundaries, in document order
RECURSIVE Segments(_, _)
Segments(lines, acc) ==
    IF lines = <<>> THEN <<acc>>
    ELSE IF Boundary(Head(lines))
    THEN <<acc>> \o Segments(Tail(lines), <<>>)
    ELSE Segments(Tail(lines), Append(acc, Head(lines)))

Blank(line) == \A i \in 1..Len(line) : IsSpace(line[i])

HasText(seg) == \E i \in 1..Len(seg) : ~Blank(seg[i])

\* the segments of a file that are not entirely blank
NonBlankSegments(t) == SelectSeq(Segments(SplitOn(t, NL), <<>>), HasText)

\* the first non-blank line of a segment
HeadingIdx(seg) ==
    CHOOSE i \in 1..Len(seg) :
        ~Blank(seg[i]) /\ \A j \in 1..(i - 1) : Blank(seg[j])

HeadingOf(seg) == Strip(seg[HeadingIdx(seg)])

\* the trimmed remainder of a segment after its heading line
BodyOf(seg) ==
    Strip(Join(SubSeq(seg, HeadingIdx(seg) + 1, Len(seg)), NL))

\* the k-th "*" of a line
StarAt(h, k) ==
    CHOOSE i \in 1..Len(h) :
        /\ h[i] = "*"
        /\ Cardinality({j \in 1..(i - 1) : h[j] = "*"}) = k - 1

\* the substrings between one "*" and the next, pair after pair
TagsOf(h) ==
    [k \in 1..(Cardinality({i \in 1..Len(h) : h[i] = "*"}) \div 2) |->
        SubSeq(h, StarAt(h, 2 * k - 1) + 1, StarAt(h, 2 * k) - 1)]

\* the chunk of a segment taken whole
WholeChunk(seg) ==
    VimdocChunk("s", HeadingOf(seg), TagsOf(HeadingOf(seg)), BodyOf(seg))

\* every non-blank segment has a non-empty body of at most 4000 characters
PlainSegments(t) ==
    \A i \in 1..Len(NonBlankSegments(t)) :
        /\ BodyOf(NonBlankSegments(t)[i]) # <<>>
        /\ Len(BodyOf(NonBlankSegments(t)[i])) <= 4000

\* C21: when every non-blank segment has a non-empty body of at most 4000
\* characters, chunk_vimdoc returns one chunk per non-blank segment, in
\* document order, the i-th with the first non-blank line of the i-th
\* segment as heading, the *...* substrings of that line as tags and the
\* trimmed remainder as text; blank segments give nothing, the empty string
\* gives the empty list.
C21_OneChunkPerSegment ==
    (chunks.st = "returned" /\ PlainSegments(text))
        => chunks.v = [i \in 1..Len(NonBlankSegments(text)) |->
                          WholeChunk(NonBlankSegments(text)[i])]

\* a file of two sections has given two chunks, the first tagged
C21_Witness ==
    /\ chunks.st = "returned"
    /\ PlainSegments(text)
    /\ Len(NonBlankSegments(text)) = 2
    /\ Len(chunks.v) = 2
    /\ DictGet(chunks.v[1], "tags", PyList(<<>>)).v = <<PyStr(<<"g">>)>>
    /\ TextOf(chunks.v[2]) = <<"b">>

\* the fragments of a long body, trimmed
Fragments(body) ==
    [k \in 1..Len(SubSections(body)) |-> Strip(SubSections(body)[k])]

Kept(sub) == Len(sub) >= 100

\* the chunks of one segment: the whole body up to 4000 characters, else
\* the fragments of 100 characters and more
SegmentChunks(seg) ==
    IF Len(BodyOf(seg)) <= 4000 THEN <<WholeChunk(seg)>>
    ELSE LET kept == SelectSeq(Fragments(BodyOf(seg)), Kept)
         IN  [k \in 1..Len(kept) |->
                 VimdocChunk("s", HeadingOf(seg), TagsOf(HeadingOf(seg)),
                             kept[k])]

RECURSIVE AllSegmentChunks(_)
AllSegmentChunks(segs) ==
    IF segs = <<>> THEN <<>>
    ELSE SegmentChunks(Head(segs)) \o AllSegmentChunks(Tail(segs))

\* C26: a segment whose trimmed body has at most 4000 characters, 4000
\* included, gives exactly one chunk holding the whole body; a longer body
\* is re-split, every fragment of trimmed length below 100 is dropped and
\* every fragment of length 100 or more gives one chunk, all with the
\* heading and tags of the segment.
C26_SubChunkThresholds ==
    chunks.st = "returned"
        => chunks.v = AllSegmentChunks(NonBlankSegments(text))

\* a body of exactly 4000 characters came back whole, as one chunk
C26_Witness ==
    /\ chunks.st = "returned"
    /\ Len(NonBlankSegments(text)) = 1
    /\ Len(BodyOf(NonBlankSegments(text)[1])) = 4000
    /\ Len(chunks.v) = 1
    /\ Len(TextOf(chunks.v[1])) = 4000

\* the heading path of a chunk
HeadingsOf(c) ==
    [i \in DOMAIN DictGet(c, "headings", PyList(<<>>)).v |->
        DictGet(c, "headings", PyList(<<>>)).v[i].v]

\* sub occurs in s
Contains(s, sub) ==
    \E i \in 0..(Len(s) - Len(sub)) : SubSeq(s, i + 1, i + Len(sub)) = sub

\* a chunk under the path hs holding the paragraph and the code of the
\* Installation section
InstallChunk(hs) ==
    \E k \in 1..Len(chunks.v) :
        /\ HeadingsOf(chunks.v[k]) = hs
        /\ Contains(TextOf(chunks.v[k]), <<"y">>)
        /\ Contains(TextOf(chunks.v[k]), <<"c">>)

\* C22 as stated: for a README with an h1 section (Plugin, a paragraph) and
\* then an h2 section Installation with a paragraph and a fenced code
\* block, the result has a chunk whose headings are exactly [Installation]
\* and whose text holds the paragraph and the code.
C22_Original ==
    (chunks.st = "returned" /\ text \in SampleReadmes)
        => InstallChunk(<< <<"I">> >>)

\* C22: for such a README the result has a chunk whose headings are the
\* path [Plugin, Installation] and whose text holds the paragraph and the
\* code of the Installation section.
C22_InstallationUnderPlugin ==
    (chunks.st = "returned" /\ text \in SampleReadmes)
        => InstallChunk(<< <<"P">>, <<"I">> >>)

C22_Witness ==
    /\ chunks.st = "returned"
    /\ text \in SampleReadmes
    /\ InstallChunk(<< <<"P">>, <<"I">> >>)
    /\ ~InstallChunk(<< <<"I">> >>)

\* a README without its HTML: no HTML block, no inline HTML child
RECURSIVE NoHtml(_)
NoHtml(t) ==
    IF t = <<>> THEN <<>>
    ELSE IF Head(t).b = "html" THEN NoHtml(Tail(t))
    ELSE <<[Head(t) EXCEPT
              !.inline = SelectSeq(@, LAMBDA c : c.type # "html_inline")]>>
         \o NoHtml(Tail(t))

\* C23: HTML is dropped: HTML blocks and inline HTML add no text to any
\* chunk, so the chunks are those of the README without its HTML, no chunk
\* holds markup, and a section of HTML alone gives no chunk.
C23_HtmlDropped ==
    chunks.st = "returned"
        => /\ chunks.v = ChunkMarkdown(NoHtml(text), "s")
           /\ \A k \in 1..Len(chunks.v) :
                 /\ ~Contains(TextOf(chunks.v[k]), <<"<">>)
                 /\ ~Contains(TextOf(chunks.v[k]), <<">">>)

\* a heading, an HTML block and a paragraph gave exactly one chunk, the
\* paragraph
C23_Witness ==
    /\ chunks.st = "returned"
    /\ Len(text) = 3
    /\ text[1].b = "heading"
    /\ text[2].b = "html"
    /\ text[3] = Paragraph(<<Txt(<<"d">>)>>)
    /\ Len(chunks.v) = 1
    /\ TextOf(chunks.v[1]) = <<"d">>

\* the heading path after the first k blocks: at a heading of level L the
\* first L-1 entries of the path, then the text of the heading
RECURSIVE PathAt(_, _)
PathAt(t, k) ==
    IF k = 0 THEN <<>>
    ELSE IF t[k].b = "heading"
    THEN LET old == PathAt(t, k - 1)
         IN  [j \in 1..(IF t[k].level - 1 < Len(old) THEN t[k].level - 1
                        ELSE Len(old)) |-> old[j]]
             \o <<ExtractInlineText(Inline(t[k].inline))>>
    ELSE PathAt(t, k - 1)

\* the blocks from a+1 on, up to the next heading
SectionEnd(t, a) ==
    IF \E k \in (a + 1)..Len(t) : t[k].b = "heading"
    THEN (CHOOSE k \in (a + 1)..Len(t) :
             /\ t[k].b = "heading"
             /\ \A j \in (a + 1)..(k - 1) : t[j].b # "heading") - 1
    ELSE Len(t)

\* the chunk of the section that starts after block a, under the path at a
SectionChunk(t, a) ==
    LET cs == ChunkMarkdown(SubSeq(t, a + 1, SectionEnd(t, a)), "s")
    IN  IF cs = <<>> THEN <<>>
        ELSE <<MarkdownChunk("s", PathAt(t, a), TextOf(cs[1]))>>

\* the chunks of the lead-in and of every heading's section, in order
RECURSIVE SectionsFrom(_, _)
SectionsFrom(t, a) ==
    SectionChunk(t, a)
    \o (IF SectionEnd(t, a) = Len(t) THEN <<>>
        ELSE SectionsFrom(t, SectionEnd(t, a) + 1))

\* C27: at a heading of level L the text gathered so far, if any, is
\* flushed as a chunk under the path as it was before the heading, then the
\* path becomes its first L-1 entries followed by the heading; text before
\* the first heading goes under the empty path, and the text after the last
\* heading is flushed once at the end under the final path.
C27_HeadingPath ==
    chunks.st = "returned" => chunks.v = SectionsFrom(text, 0)

\* an h2 after an h1 and an h2: the path was cut to the h1 and extended
C27_Witness ==
    /\ chunks.st = "returned"
    /\ Len(chunks.v) = 3
    /\ HeadingsOf(chunks.v[1]) = << <<"P">> >>
    /\ HeadingsOf(chunks.v[2]) = << <<"P">>, <<"I">> >>
    /\ HeadingsOf(chunks.v[3]) = << <<"P">>, <<"U">> >>

\* C24: extract_plugin_list respects the ignore list: whatever the lock
\* file, the specs and the configuration, no name listed in ignore is a key
\* of the mapping returned.
C24_IgnoredNeverReturned ==
    result.st = "returned"
        => \A n \in config.ignore : n \notin DOMAIN result.v

====
